---- MODULE Spec2Model ----
(***************************************************************************)
(* Agent Strategy Lab: the orchestrator (orchestrateTask), the agent       *)
(* runner (runAgent), the judge (judgeResponses) and the confidence gate   *)
(* (evaluateConfidenceGate), modelled as a state machine.                  *)
(*                                                                         *)
(* Numbers.  A metric (0..10, two decimals) is held in hundredths          *)
(* (5.00 = 500).  A weight is held in millionths (0.3 = 300000), the       *)
(* precision normalizeJudgeWeights keeps (toFixed(6)).  A similarity is    *)
(* held in ten-thousandths (toFixed(4)).  Totals are the integers the code *)
(* produces.  Arithmetic is exact; Math.round rounds a half upwards.       *)
(***************************************************************************)
EXTENDS Integers, Sequences, FiniteSets, TLC

\* ------------------------------------------------------------------ bounds
AgentCount == 2
MaxSteps == 1
MaxToolCalls == 1
MaxTimeouts == 1
MaxFaults == 1
SocketCount == 2
MaxUpdates == 3
MaxThoughts == 3
MaxPatternSteps == 4
MaxLoopCalls == 9

\* ------------------------------------------------------- program constants
LEARNING_SCORE_THRESHOLD == 25
CONSENSUS_PANEL_COUNT == 3
DIVERSITY_SIMILARITY_THRESHOLD == 7200
DIVERSITY_PENALTY_FACTOR == 8
CONFIDENCE_GATE_MIN_TOTAL == 26
CONFIDENCE_GATE_MIN_MARGIN == 2
CONFIDENCE_GATE_MIN_ACCURACY == 650
maxTurns == 8
FlatMetric == 500
BaselineNoHistory == 20

Agents == 1..AgentCount
Panels == 1..CONSENSUS_PANEL_COUNT
Metrics == {"accuracy", "completeness", "clarity", "insight"}

\* ----------------------------------------------------------- arithmetic
\* A sequence given by a rule, every element computed once.
Array(s) == s \o <<>>

\* Math.round(a / b) for a >= 0, b > 0: the nearest integer, a half upwards.
RoundDiv(a, b) == (2 * a + b) \div (2 * b)

Max2(a, b) == IF a >= b THEN a ELSE b
Min2(a, b) == IF a <= b THEN a ELSE b

RECURSIVE SumSeq(_)
SumSeq(s) == IF s = <<>> THEN 0 ELSE Head(s) + SumSeq(Tail(s))

\* ---------------------------------------------------------------- weights
DEFAULT_CRITERIA_WEIGHTS ==
  [accuracy |-> 300000, completeness |-> 300000, clarity |-> 200000, insight |-> 200000]

\* The merge and the guard of normalizeJudgeWeights on a raw request value,
\* in tenths: a missing component takes the default's (0.3 or 0.2); one that
\* is not a finite number or is negative (held as -1) counts as 0.
safeJudgeWeights(raw) ==
  [m \in Metrics |->
     IF m \notin DOMAIN raw THEN DEFAULT_CRITERIA_WEIGHTS[m] \div 100000
     ELSE IF raw[m] < 0 THEN 0
     ELSE raw[m]]

\* normalizeJudgeWeights on a vector of non-negative finite numbers (held as
\* integers in any common unit): each component divided by the sum and kept
\* to six decimals; the default when the sum is not positive.
normalizeJudgeWeights(input) ==
  LET total == input.accuracy + input.completeness + input.clarity + input.insight
      \* round(x * 10^6 / total), the product taken in two steps of 10^3
      share(x) == ((x * 1000) \div total) * 1000
                    + RoundDiv(((x * 1000) % total) * 1000, total)
  IN IF total <= 0 THEN DEFAULT_CRITERIA_WEIGHTS
     ELSE [accuracy |-> share(input.accuracy),
           completeness |-> share(input.completeness),
           clarity |-> share(input.clarity),
           insight |-> share(input.insight)]

CODING_WEIGHTS ==
  normalizeJudgeWeights([accuracy |-> 45, completeness |-> 25, clarity |-> 10, insight |-> 20])

\* weightedTotal: Math.round(weighted10 * 4), weighted10 the weighted mean of
\* the four metrics.
weightedTotal(weights, score) ==
  LET s == score.accuracy * weights.accuracy
           + score.completeness * weights.completeness
           + score.clarity * weights.clarity
           + score.insight * weights.insight
  IN (s + 12500000) \div 25000000


\* ------------------------------------------------------------------ texts
\* A text is known by the set of tokens toTokenSet finds in it (lower-cased
\* alphanumeric words longer than two letters that are no stop word).
ResponseTexts == {"r1", "r2"}
Thoughts == {"th"}

TokensOf(text) ==
  CASE text = "r1" -> {1, 2, 3}
    [] text = "r2" -> {4, 5, 6}
    [] text = "th" -> {7}
    [] text = "skill" -> {8}
    [] OTHER -> {}

\* hasUnverifiedPassingClaim: the response says that tests pass.
ClaimsPassingTests(text) == text = "r2"

\* jaccardSimilarity of two token sets, in ten-thousandths.
jaccardSimilarity(left, right) ==
  IF left = {} /\ right = {} THEN 10000
  ELSE IF left = {} \/ right = {} THEN 0
  ELSE LET inter == Cardinality(left \cap right)
           union == Cardinality(left) + Cardinality(right) - inter
       IN IF union = 0 THEN 0 ELSE RoundDiv(inter * 10000, union)

\* The text applyDiversityPenalty compares: the response and every thought
\* of the reasoning list.
SignalTokens(r) ==
  TokensOf(r.response) \cup UNION {TokensOf(r.reasoning[i].thought) : i \in 1..Len(r.reasoning)}

\* ----------------------------------------------------------------- scores
defaultEvidence ==
  [m \in Metrics |-> [quote |-> "[no direct quote provided]", reason |-> "fallback applied"]]

\* A fallback score that is not flat at 5.00: accuracy is a point higher.
fallbackScoreRaised(agentId, reason, weights) ==
  LET metrics == [accuracy |-> FlatMetric + 100, completeness |-> FlatMetric,
                  clarity |-> FlatMetric, insight |-> FlatMetric]
      base == weightedTotal(weights, metrics)
  IN [agentId |-> agentId,
      accuracy |-> metrics.accuracy, completeness |-> FlatMetric,
      clarity |-> FlatMetric, insight |-> FlatMetric,
      total |-> base, baseTotal |-> base,
      diversityPenaltyApplied |-> FALSE, maxSimilarity |-> 0,
      reasoning |-> reason, metricEvidence |-> defaultEvidence,
      objectiveAdjustment |-> FALSE]

\* fallbackScore: 5 on every metric, the total from the weights.
fallbackScore(agentId, reason, weights) ==
  LET base == weightedTotal(weights,
                [accuracy |-> FlatMetric, completeness |-> FlatMetric,
                 clarity |-> FlatMetric, insight |-> FlatMetric])
  IN [agentId |-> agentId,
      accuracy |-> FlatMetric, completeness |-> FlatMetric,
      clarity |-> FlatMetric, insight |-> FlatMetric,
      total |-> base, baseTotal |-> base,
      diversityPenaltyApplied |-> FALSE, maxSimilarity |-> 0,
      reasoning |-> reason, metricEvidence |-> defaultEvidence,
      objectiveAdjustment |-> FALSE]

\* The score judgeResponses builds from a score the judge returned.
parsedScore(agentId, parsed, weights) ==
  LET base == weightedTotal(weights, parsed)
  IN [agentId |-> agentId,
      accuracy |-> parsed.accuracy, completeness |-> parsed.completeness,
      clarity |-> parsed.clarity, insight |-> parsed.insight,
      total |-> base, baseTotal |-> base,
      diversityPenaltyApplied |-> FALSE, maxSimilarity |-> 0,
      reasoning |-> "judge", metricEvidence |-> parsed.metricEvidence,
      objectiveAdjustment |-> FALSE]

\* clampMetric on a non-negative value already in hundredths.
clampMetric(v) == Max2(0, Min2(1000, v))

CountCalls(su, P(_)) == Cardinality({i \in 1..Len(su) : P(su[i])})

\* extractCodingObjectiveSignals: what the tool-call ledger shows.
extractCodingObjectiveSignals(r) ==
  LET su == r.skillUsage
      IsVerification(u) == u.name \in {"workspace-shell", "code-executor"}
      IsTest(u) == IsVerification(u) /\ u.test
      IsLint(u) == u.name = "workspace-shell" /\ u.lint
      testRuns == CountCalls(su, IsTest)
  IN [verificationRuns |-> CountCalls(su, IsVerification),
      successfulVerificationRuns |-> CountCalls(su, LAMBDA u : IsVerification(u) /\ u.success),
      failedVerificationRuns |-> CountCalls(su, LAMBDA u : IsVerification(u) /\ ~u.success),
      testRuns |-> testRuns,
      passedTestRuns |-> CountCalls(su, LAMBDA u : IsTest(u) /\ u.success),
      failedTestRuns |-> CountCalls(su, LAMBDA u : IsTest(u) /\ ~u.success),
      lintRuns |-> CountCalls(su, IsLint),
      failedLintRuns |-> CountCalls(su, LAMBDA u : IsLint(u) /\ ~u.success),
      claimedPassingTestsWithoutEvidence |-> ClaimsPassingTests(r.response) /\ testRuns = 0]

\* computeCodingObjectiveScore, in hundredths.
computeCodingObjectiveScore(signals) ==
  LET verification ==
        IF signals.verificationRuns > 0
        THEN 120 + Min2(220, signals.successfulVerificationRuns * 45)
                 - Min2(180, signals.failedVerificationRuns * 55)
        ELSE 0 - 120
      lint ==
        IF signals.lintRuns > 0
        THEN (IF signals.failedLintRuns = 0 THEN 40
              ELSE 0 - Min2(100, signals.failedLintRuns * 35))
        ELSE 0
      claim == IF signals.claimedPassingTestsWithoutEvidence THEN 0 - 150 ELSE 0
      fixed == 420 + verification + lint + claim
  IN IF signals.testRuns > 0
     THEN clampMetric(RoundDiv((fixed + 80) * signals.testRuns + 210 * signals.passedTestRuns,
                               signals.testRuns))
     ELSE clampMetric(fixed - 40)

\* An objective correction that blends the metrics and keeps the totals the
\* judge's metrics gave.
applyCodingObjectiveKeepingTotal(scores, successfulResults, weights) ==
  Array([i \in 1..Len(scores) |->
    LET score == scores[i]
        found == {k \in 1..Len(successfulResults) :
                    successfulResults[k].agentId = score.agentId}
    IN IF found = {} THEN score
       ELSE LET result == successfulResults[CHOOSE k \in found : TRUE]
                objectiveScore ==
                  computeCodingObjectiveScore(extractCodingObjectiveSignals(result))
            IN [score EXCEPT
                  !.accuracy =
                     clampMetric(RoundDiv(score.accuracy * 72 + objectiveScore * 28, 100)),
                  !.completeness =
                     clampMetric(RoundDiv(score.completeness * 82 + objectiveScore * 18, 100)),
                  !.objectiveAdjustment = TRUE]])

\* applyCodingObjectiveScoring: blend the objective score into accuracy and
\* completeness and recompute baseTotal.
applyCodingObjectiveScoring(scores, successfulResults, weights) ==
  Array([i \in 1..Len(scores) |->
    LET score == scores[i]
        found == {k \in 1..Len(successfulResults) :
                    successfulResults[k].agentId = score.agentId}
    IN IF found = {} THEN score
       ELSE LET result == successfulResults[CHOOSE k \in found : TRUE]
                objectiveScore ==
                  computeCodingObjectiveScore(extractCodingObjectiveSignals(result))
                adjustedAccuracy ==
                  clampMetric(RoundDiv(score.accuracy * 72 + objectiveScore * 28, 100))
                adjustedCompleteness ==
                  clampMetric(RoundDiv(score.completeness * 82 + objectiveScore * 18, 100))
                adjustedBaseTotal ==
                  weightedTotal(weights,
                    [accuracy |-> adjustedAccuracy, completeness |-> adjustedCompleteness,
                     clarity |-> score.clarity, insight |-> score.insight])
            IN [score EXCEPT !.accuracy = adjustedAccuracy,
                             !.completeness = adjustedCompleteness,
                             !.baseTotal = adjustedBaseTotal,
                             !.total = adjustedBaseTotal,
                             !.objectiveAdjustment = TRUE]])

\* A diversity penalty that ignores the similarity threshold.
applyDiversityPenaltyAlways(scores, successfulResults) ==
  Array([i \in 1..Len(scores) |->
    [scores[i] EXCEPT
       !.total = Max2(0, RoundDiv(scores[i].baseTotal * DIVERSITY_PENALTY_FACTOR, 10)),
       !.diversityPenaltyApplied = TRUE,
       !.maxSimilarity = 10000]])

\* A diversity penalty that charges a similarity to the later agent of a
\* pair only.
applyDiversityPenaltyLaterOnly(scores, successfulResults) ==
  LET n == Len(successfulResults)
      sim(i, j) == jaccardSimilarity(SignalTokens(successfulResults[i]),
                                     SignalTokens(successfulResults[j]))
      similarityOf(agentId) ==
        LET mine == {k \in 1..n : successfulResults[k].agentId = agentId}
            sims == {sim(i, j) : i \in mine, j \in {k \in (1..n) \ mine : \A m \in mine : k < m}}
        IN IF sims = {} THEN 0 ELSE CHOOSE x \in sims : \A y \in sims : y <= x
  IN Array([i \in 1..Len(scores) |->
       LET score == scores[i]
           maxSimilarity == similarityOf(score.agentId)
           penaltyApplies == maxSimilarity >= DIVERSITY_SIMILARITY_THRESHOLD
       IN [score EXCEPT
             !.total = IF penaltyApplies
                       THEN Max2(0, RoundDiv(score.baseTotal * DIVERSITY_PENALTY_FACTOR, 10))
                       ELSE score.baseTotal,
             !.diversityPenaltyApplied = penaltyApplies,
             !.maxSimilarity = maxSimilarity]])

\* applyDiversityPenalty: an agent whose greatest similarity to another
\* successful agent reaches the threshold keeps 0.8 of its baseTotal.
applyDiversityPenalty(scores, successfulResults) ==
  LET n == Len(successfulResults)
      sim(i, j) == jaccardSimilarity(SignalTokens(successfulResults[i]),
                                     SignalTokens(successfulResults[j]))
      similarityOf(agentId) ==
        LET mine == {k \in 1..n : successfulResults[k].agentId = agentId}
            sims == {sim(i, j) : i \in mine, j \in (1..n) \ mine}
        IN IF sims = {} THEN 0 ELSE CHOOSE x \in sims : \A y \in sims : y <= x
  IN Array([i \in 1..Len(scores) |->
       LET score == scores[i]
           maxSimilarity == similarityOf(score.agentId)
           penaltyApplies == maxSimilarity >= DIVERSITY_SIMILARITY_THRESHOLD
       IN [score EXCEPT
             !.total = IF penaltyApplies
                       THEN Max2(0, RoundDiv(score.baseTotal * DIVERSITY_PENALTY_FACTOR, 10))
                       ELSE score.baseTotal,
             !.diversityPenaltyApplied = penaltyApplies,
             !.maxSimilarity = maxSimilarity]])

\* The comparator of resolveWinner: a sorts before b.
SortsBefore(a, b) ==
  \/ a.total > b.total
  \/ a.total = b.total /\ a.accuracy > b.accuracy
  \/ a.total = b.total /\ a.accuracy = b.accuracy /\ a.completeness > b.completeness
  \/ a.total = b.total /\ a.accuracy = b.accuracy /\ a.completeness = b.completeness
       /\ a.insight > b.insight
  \/ a.total = b.total /\ a.accuracy = b.accuracy /\ a.completeness = b.completeness
       /\ a.insight = b.insight /\ a.agentId < b.agentId

\* A winner resolution that compares totals only: the first listed score of
\* the highest total.
resolveWinnerByTotalOnly(scores) ==
  IF Len(scores) = 0 THEN 1
  ELSE LET best == {i \in 1..Len(scores) :
                      \A j \in 1..Len(scores) : scores[j].total <= scores[i].total}
           first == CHOOSE i \in best : \A j \in best : i <= j
       IN scores[first].agentId

\* resolveWinner: the first score of the (stable) sort; agent-1 for no score.
resolveWinner(scores) ==
  IF Len(scores) = 0 THEN 1
  ELSE LET best == {i \in 1..Len(scores) :
                      \A j \in 1..Len(scores) : ~SortsBefore(scores[j], scores[i])}
           first == CHOOSE i \in best : \A j \in best : i <= j
       IN scores[first].agentId


\* ------------------------------------------------------------------ judge
\* A result the judge can score: success with a non-empty response.
IsSuccessful(r) == r.success /\ r.response # ""

\* What requestJudgeResponse and the schema validation yield: valid = FALSE
\* is a failed call, unparseable JSON or a schema violation; otherwise
\* scores maps the agent ids the judge scored to their metrics.
NoReply == [valid |-> FALSE, scores |-> <<>>]

\* judgeResponses(taskPrompt, results, options) for the given judge reply.
\* threw: 'No successful results to judge'.  called: the judge model was
\* requested.
judgeResponses(results, weights, objectiveMode, reply) ==
  LET successfulResults == SelectSeq(results, IsSuccessful)
      criteriaWeights == normalizeJudgeWeights(weights)
      objective(scores) ==
        IF objectiveMode = "coding-v1"
        THEN applyCodingObjectiveScoring(scores, successfulResults, criteriaWeights)
        ELSE scores
      verdict(winner, scores, summary, called) ==
        [threw |-> FALSE, winner |-> winner, scores |-> scores, summary |-> summary,
         mode |-> "single", called |-> called, criteriaWeights |-> criteriaWeights]
  IN IF Len(successfulResults) = 0
     THEN [threw |-> TRUE, winner |-> 0, scores |-> <<>>, summary |-> "none",
           mode |-> "single", called |-> FALSE, criteriaWeights |-> criteriaWeights]
     ELSE IF Len(successfulResults) = 1
     THEN LET winner == successfulResults[1]
              singleScores ==
                objective(<<fallbackScore(winner.agentId, "default", criteriaWeights)>>)
          IN verdict(winner.agentId, singleScores, "default", FALSE)
     ELSE IF reply.valid
     THEN LET scores ==
                Array([i \in 1..Len(successfulResults) |->
                  LET id == successfulResults[i].agentId
                  IN IF id \in DOMAIN reply.scores
                     THEN parsedScore(id, reply.scores[id], criteriaWeights)
                     ELSE fallbackScore(id, "omitted", criteriaWeights)])
              final == applyDiversityPenalty(objective(scores), successfulResults)
          IN verdict(resolveWinner(final), final, "judge", TRUE)
     ELSE LET fallbackScores ==
                Array([i \in 1..Len(successfulResults) |->
                  fallbackScore(successfulResults[i].agentId, "unavailable", criteriaWeights)])
              final == applyDiversityPenalty(objective(fallbackScores), successfulResults)
          IN verdict(resolveWinner(final), final, "unavailable", TRUE)

\* ---------------------------------------------------------------- consensus
RECURSIVE InsertSorted(_, _)
InsertSorted(x, s) ==
  IF s = <<>> THEN <<x>>
  ELSE IF x <= Head(s) THEN <<x>> \o s
       ELSE <<Head(s)>> \o InsertSorted(x, Tail(s))

RECURSIVE SortNumbers(_)
SortNumbers(s) == IF s = <<>> THEN <<>> ELSE InsertSorted(Head(s), SortNumbers(Tail(s)))

\* The mean in the place of the median.
meanOfValues(values) ==
  IF Len(values) = 0 THEN 0 ELSE RoundDiv(SumSeq(values), Len(values))

\* median: the middle value, or the mean of the two middle values.
median(values) ==
  IF Len(values) = 0 THEN 0
  ELSE LET sorted == SortNumbers(values)
           middle == Len(sorted) \div 2
       IN IF Len(sorted) % 2 = 1 THEN sorted[middle + 1]
          ELSE RoundDiv(sorted[middle] + sorted[middle + 1], 2)

ScoreOf(scores, agentId) ==
  LET found == {i \in 1..Len(scores) : scores[i].agentId = agentId}
  IN scores[CHOOSE i \in found : \A j \in found : i <= j]

HasScore(scores, agentId) == \E i \in 1..Len(scores) : scores[i].agentId = agentId

\* The spreads of the agents summed, not averaged.
computeConsensusDisagreementSum(judgeRuns, agentIds) ==
  IF Len(judgeRuns) <= 1 \/ Len(agentIds) = 0 THEN 0
  ELSE LET totalOf(run, id) ==
             IF HasScore(run.scores, id) THEN ScoreOf(run.scores, id).total ELSE 0
           spread(id) ==
             LET totals == {totalOf(judgeRuns[k], id) : k \in 1..Len(judgeRuns)}
             IN (CHOOSE x \in totals : \A y \in totals : y <= x)
                - (CHOOSE x \in totals : \A y \in totals : x <= y)
           spreads == Array([i \in 1..Len(agentIds) |-> spread(agentIds[i])])
       IN RoundDiv(SumSeq(spreads) * 10000, 40)

\* computeConsensusDisagreementIndex, in ten-thousandths.
computeConsensusDisagreementIndex(judgeRuns, agentIds) ==
  IF Len(judgeRuns) <= 1 \/ Len(agentIds) = 0 THEN 0
  ELSE LET totalOf(run, id) ==
             IF HasScore(run.scores, id) THEN ScoreOf(run.scores, id).total ELSE 0
           spread(id) ==
             LET totals == {totalOf(judgeRuns[k], id) : k \in 1..Len(judgeRuns)}
             IN (CHOOSE x \in totals : \A y \in totals : y <= x)
                - (CHOOSE x \in totals : \A y \in totals : x <= y)
           spreads == Array([i \in 1..Len(agentIds) |-> spread(agentIds[i])])
       IN RoundDiv(SumSeq(spreads) * 10000, 40 * Len(agentIds))

\* aggregateConsensusJudgeRuns: per agent the median of each metric over the
\* panels, baseTotal from the medians, then the diversity penalty.
aggregateConsensusJudgeRuns(judgeRuns, successfulResults, criteriaWeights) ==
  LET agentIds == Array([i \in 1..Len(successfulResults) |-> successfulResults[i].agentId])
      scores ==
        Array([i \in 1..Len(agentIds) |->
          LET agentId == agentIds[i]
              perRunScores ==
                LET has == SelectSeq(judgeRuns, LAMBDA run : HasScore(run.scores, agentId))
                IN Array([k \in 1..Len(has) |-> ScoreOf(has[k].scores, agentId)])
              col(m) == Array([k \in 1..Len(perRunScores) |-> perRunScores[k][m]])
              medians == [accuracy |-> median(col("accuracy")),
                          completeness |-> median(col("completeness")),
                          clarity |-> median(col("clarity")),
                          insight |-> median(col("insight"))]
              baseTotal == weightedTotal(criteriaWeights, medians)
              bestIdx == CHOOSE k \in 1..Len(perRunScores) :
                           /\ \A j \in 1..Len(perRunScores) :
                                perRunScores[j].total <= perRunScores[k].total
                           /\ \A j \in 1..(k - 1) :
                                perRunScores[j].total < perRunScores[k].total
          IN [agentId |-> agentId,
              accuracy |-> medians.accuracy, completeness |-> medians.completeness,
              clarity |-> medians.clarity, insight |-> medians.insight,
              total |-> baseTotal, baseTotal |-> baseTotal,
              diversityPenaltyApplied |-> FALSE, maxSimilarity |-> 0,
              reasoning |-> IF Len(perRunScores) > 0 THEN perRunScores[bestIdx].reasoning
                            ELSE "consensus",
              metricEvidence |-> IF Len(perRunScores) > 0
                                 THEN perRunScores[bestIdx].metricEvidence
                                 ELSE [m \in Metrics |->
                                        [quote |-> "[consensus-median]",
                                         reason |-> "run-level evidence"]],
              objectiveAdjustment |-> FALSE]])
      penalizedScores == applyDiversityPenalty(scores, successfulResults)
      winner == resolveWinner(penalizedScores)
      winnerVotes == Cardinality({k \in 1..Len(judgeRuns) : judgeRuns[k].winner = winner})
  IN [threw |-> FALSE, winner |-> winner, scores |-> penalizedScores,
      summary |-> "consensus", mode |-> "consensus",
      called |-> \E k \in 1..Len(judgeRuns) : judgeRuns[k].called,
      criteriaWeights |-> criteriaWeights,
      disagreementIndex |-> computeConsensusDisagreementIndex(judgeRuns, agentIds),
      panelAgreement |-> RoundDiv(winnerVotes * 10000, Max2(1, Len(judgeRuns)))]

\* A gate that tests the margin alone.
evaluateConfidenceGateMarginOnly(scores, enabled, minTotal, minMargin, minAccuracy) ==
  LET n == Len(scores)
      top == {i \in 1..n : \A j \in 1..n : scores[j].total <= scores[i].total}
      first == CHOOSE i \in top : \A j \in top : i <= j
      rest == (1..n) \ {first}
      topRest == {i \in rest : \A j \in rest : scores[j].total <= scores[i].total}
      winnerTotal == IF n = 0 THEN 0 ELSE scores[first].total
      winnerAccuracy == IF n = 0 THEN 0 ELSE scores[first].accuracy
      marginToSecond ==
        IF n >= 2 THEN winnerTotal - scores[CHOOSE i \in topRest : TRUE].total
        ELSE winnerTotal
      reasons == IF marginToSecond < minMargin THEN <<"margin">> ELSE <<>>
  IN [enabled |-> enabled,
      passed |-> IF enabled THEN reasons = <<>> ELSE TRUE,
      winnerTotal |-> winnerTotal,
      winnerAccuracy |-> winnerAccuracy,
      marginToSecond |-> marginToSecond,
      minTotal |-> minTotal, minMargin |-> minMargin, minAccuracy |-> minAccuracy,
      reason |-> IF ~enabled THEN <<"disabled">>
                 ELSE IF reasons = <<>> THEN <<"passed">> ELSE reasons]

\* ------------------------------------------------------------------- gate
\* evaluateConfidenceGate: the first two scores of the stable sort by total;
\* reasons lists the thresholds found violated, in the order they are tested.
evaluateConfidenceGate(scores, enabled, minTotal, minMargin, minAccuracy) ==
  LET n == Len(scores)
      top == {i \in 1..n : \A j \in 1..n : scores[j].total <= scores[i].total}
      first == CHOOSE i \in top : \A j \in top : i <= j
      rest == (1..n) \ {first}
      topRest == {i \in rest : \A j \in rest : scores[j].total <= scores[i].total}
      winnerTotal == IF n = 0 THEN 0 ELSE scores[first].total
      winnerAccuracy == IF n = 0 THEN 0 ELSE scores[first].accuracy
      marginToSecond ==
        IF n >= 2 THEN winnerTotal - scores[CHOOSE i \in topRest : TRUE].total
        ELSE winnerTotal
      reasons ==
        (IF winnerTotal < minTotal THEN <<"total">> ELSE <<>>)
        \o (IF marginToSecond < minMargin THEN <<"margin">> ELSE <<>>)
        \o (IF winnerAccuracy < minAccuracy THEN <<"accuracy">> ELSE <<>>)
  IN [enabled |-> enabled,
      passed |-> IF enabled THEN reasons = <<>> ELSE TRUE,
      winnerTotal |-> winnerTotal,
      winnerAccuracy |-> winnerAccuracy,
      marginToSecond |-> marginToSecond,
      minTotal |-> minTotal, minMargin |-> minMargin, minAccuracy |-> minAccuracy,
      reason |-> IF ~enabled THEN <<"disabled">>
                 ELSE IF reasons = <<>> THEN <<"passed">> ELSE reasons]


\* computeEvidenceCoverage, in ten-thousandths: the share of the metrics whose
\* evidence has a reason and a quote that is not the placeholder.
computeEvidenceCoverage(score) ==
  LET supported == {m \in Metrics :
                      /\ score.metricEvidence[m].reason # ""
                      /\ score.metricEvidence[m].quote # ""
                      /\ score.metricEvidence[m].quote # "[no direct quote provided]"}
  IN RoundDiv(Cardinality(supported) * 10000, Cardinality(Metrics))

\* deriveConfidenceLevel asking for more than three quarters of the evidence.
deriveConfidenceLevelAbove(confidenceGate, evidenceCoverage, disagreementIndex) ==
  IF ~confidenceGate.passed THEN "low"
  ELSE IF evidenceCoverage > 7500 /\ disagreementIndex <= 1200 THEN "high"
  ELSE "medium"

\* deriveConfidenceLevel.
deriveConfidenceLevel(confidenceGate, evidenceCoverage, disagreementIndex) ==
  IF ~confidenceGate.passed THEN "low"
  ELSE IF evidenceCoverage >= 7500 /\ disagreementIndex <= 1200 THEN "high"
  ELSE "medium"


\* ============================================================== the state
VARIABLES
  cfg,            \* configuration and request: ENABLE_LEARNING, CONFIDENCE_GATE_ENABLED,
                  \* the resolved API key, the judge mode, the task category
  history,        \* winning totals of earlier tasks of the category (JudgeResult rows)
  pc,             \* where orchestrateTask stands
  events,         \* phase events handed to onUpdate
  body,           \* per agent: where the response promise of runAgent stands
  turn,           \* per agent: the turn of the tool loop
  reasoning,      \* per agent: the reasoning array of runAgent
  skillUsage,     \* per agent: the skillUsage array of runAgent
  result,         \* per agent: the AgentRunResult runAgent resolved with
  emitted,        \* per agent: the steps of its reasoning_step events, in order
  stepCount,      \* per agent: the stepCount of runAgent
  panel,          \* per judge panel: idle, pending or done
  judgeRuns,      \* per judge panel: the verdict judgeResponses returned
  judgeResult,    \* the verdict of the run with its trust signals
  confidenceGate, \* the ConfidenceGateDecision of the run
  lift,           \* baselineScore and winnerLift, in hundredths
  writes,         \* the step 9 writes handed to Promise.all: pending, ok or failed
  learn,          \* extractAndSaveLearnings: remaining targets and the row found
  taskStatus,     \* Task.status
  taskResults,    \* agents with a TaskResult row
  strategyRows,   \* number of Strategy rows of the task
  verdictRow,     \* the JudgeResult row of the task
  skillUsageRows, \* number of SkillUsage batches stored
  observations,   \* per agent: number of LearningObservation rows
  observationAttempts, \* number of failure-observation createMany calls issued
  agentLearning,  \* the AgentLearning rows
  learningWrites, \* number of AgentLearning creates and updates applied by the run
  faults,         \* number of store operations that rejected
  sockets,        \* the connected sockets of the Socket.IO server
  rooms,          \* per socket: the rooms it has joined
  received,       \* per socket: the task_update messages delivered to it
  updates         \* per task: number of updates its onUpdate callback has sent

agentVars == <<body, turn, reasoning, skillUsage, result, emitted, stepCount>>
judgeVars == <<panel, judgeRuns, judgeResult, confidenceGate, lift>>
dbVars == <<taskStatus, taskResults, strategyRows, verdictRow, skillUsageRows,
            observations, observationAttempts, agentLearning, learningWrites>>
ioVars == <<sockets, rooms, received, updates>>
vars == <<cfg, history, faults, pc, events, agentVars, judgeVars, writes, learn, dbVars,
          ioVars>>

\* ---------------------------------------------------------- domain plan
Categories == {"general", "coding"}
JudgeModes == {"single", "consensus"}

\* DOMAIN_PROFILES: the default weights and the objective mode of a category.
ProfileWeights(category) ==
  IF category = "coding" THEN CODING_WEIGHTS ELSE DEFAULT_CRITERIA_WEIGHTS

ProfileObjectiveMode(category) == IF category = "coding" THEN "coding-v1" ELSE "none"

ProfileJudgeMode(category) == "single"

ProfileSkills(category) ==
  IF category = "coding"
  THEN <<"workspace-shell", "code-executor", "file-reader", "calculator">>
  ELSE <<"calculator", "file-reader", "web-search">>

\* ------------------------------------------------------------ agent runner
NoResult ==
  [produced |-> FALSE, success |-> FALSE, response |-> "", error |-> "",
   telemetry |-> [toolCallCount |-> 0, successfulToolCalls |-> 0,
                  verificationSteps |-> 0, toolSequence |-> <<>>]]

VERIFICATION_SKILLS == {"web-search", "calculator", "code-executor", "file-reader"}

\* buildTelemetry: the counts and the tool names of the ledger, copied.
buildTelemetry(su) ==
  [toolCallCount |-> Len(su),
   successfulToolCalls |-> CountCalls(su, LAMBDA u : u.success),
   verificationSteps |-> CountCalls(su, LAMBDA u : u.name \in VERIFICATION_SKILLS),
   toolSequence |-> Array([i \in 1..Len(su) |-> su[i].name])]

\* What a thought looks like to estimateConfidence.
ThoughtFeatures(thought) ==
  [over80 |-> TRUE, over140 |-> FALSE, digit |-> FALSE,
   keyword |-> thought = "th", question |-> thought = "why"]

\* estimateConfidence, in hundredths, clamped to 0.55 .. 0.95.
estimateConfidence(thought, step) ==
  LET f == ThoughtFeatures(thought)
      score == 62 + (IF f.over80 THEN 8 ELSE 0) + (IF f.over140 THEN 5 ELSE 0)
                  + (IF f.digit THEN 3 ELSE 0) + (IF f.keyword THEN 12 ELSE 0)
                  - (IF f.question THEN 4 ELSE 0) + (IF step <= 2 THEN 3 ELSE 0)
  IN Max2(55, Min2(95, score))

\* A counter all the agents share.
sharedStepCount(a) == SumSeq(stepCount)

\* The stepCount of an agent's execution: runAgent's own local variable.
stepCountOf(a) == stepCount[a]

\* pushReasoning: the step built after stepCount += 1.
ReasoningStep(a, thought) ==
  [step |-> stepCountOf(a) + 1, thought |-> thought,
   confidence |-> estimateConfidence(thought, stepCountOf(a) + 1)]

\* The record skillRegistry.execute yields, with the indices runAgent adds.
UsageRecord(input, success, turnIndex, callIndex) ==
  [name |-> input.name, test |-> input.test, lint |-> input.lint,
   success |-> success, turnIndex |-> turnIndex, callIndex |-> callIndex]

\* The AgentRunResult as a reader sees it: reasoning and skillUsage are the
\* arrays of the execution itself, not copies.
ResultView(a) ==
  [agentId |-> a, success |-> result[a].success, response |-> result[a].response,
   error |-> result[a].error, reasoning |-> reasoning[a], skillUsage |-> skillUsage[a],
   telemetry |-> result[a].telemetry]

Results == Array([a \in Agents |-> ResultView(a)])

\* FailedResult with the text produced so far kept as the response.
FailedResultKeepingText(su, message) ==
  [produced |-> TRUE, success |-> FALSE, response |-> "partial", error |-> message,
   telemetry |-> buildTelemetry(su)]

SuccessResult(su, text) ==
  [produced |-> TRUE, success |-> TRUE, response |-> text, error |-> "",
   telemetry |-> buildTelemetry(su)]

FailedResult(su, message) ==
  [produced |-> TRUE, success |-> FALSE, response |-> "", error |-> message,
   telemetry |-> buildTelemetry(su)]

ToolInputs == {[name |-> "code-executor", test |-> TRUE, lint |-> FALSE]}

\* A race in which the last settlement replaces the result.
SettleLast(a, r) == [result EXCEPT ![a] = r]

\* A thought under 20 characters once trimmed.
ShortThought == "ok"

\* One thought handed to pushReasoning while the reply of a model request is
\* read: a thought under 20 characters is dropped before the counter moves;
\* any other is numbered, pushed and reported through onReasoningStep.
Think(a, thought) ==
  /\ body[a] = "request"
  /\ stepCountOf(a) < MaxThoughts
  /\ IF thought = ShortThought
     THEN UNCHANGED <<reasoning, emitted, stepCount>>
     ELSE /\ reasoning' = [reasoning EXCEPT ![a] = Append(@, ReasoningStep(a, thought))]
          /\ emitted' = [emitted EXCEPT ![a] = Append(@, ReasoningStep(a, thought))]
          /\ stepCount' = [stepCount EXCEPT ![a] = stepCountOf(a) + 1]
  /\ UNCHANGED <<body, turn, skillUsage, result>>
  /\ UNCHANGED <<cfg, ioVars, history, faults, pc, events, judgeVars, writes, learn, dbVars>>

\* Promise.race: the first settlement is the result; a later one is dropped.
Settle(a, r) == IF result[a].produced THEN result ELSE [result EXCEPT ![a] = r]

\* One model reply of the tool loop: thoughts are pushed; a reply without a
\* tool call ends the loop and the execution returns its result.
ModelReplyWithin(a, thought, tool, text, stepBound, callBound) ==
  /\ body[a] = "request"
  /\ thought # "none" => Len(reasoning[a]) < stepBound
  /\ tool => /\ Len(skillUsage[a]) < callBound
             /\ Len(reasoning[a]) + (IF thought = "none" THEN 0 ELSE 1) < stepBound
  /\ LET pushed == IF thought = "none" THEN reasoning[a]
                   ELSE Append(reasoning[a], ReasoningStep(a, thought))
     IN /\ reasoning' = [reasoning EXCEPT ![a] = pushed]
        /\ emitted' = IF thought = "none" THEN emitted
                      ELSE [emitted EXCEPT ![a] = Append(@, ReasoningStep(a, thought))]
        /\ stepCount' = IF thought = "none" THEN stepCount
                        ELSE [stepCount EXCEPT ![a] = stepCountOf(a) + 1]
  /\ IF tool
     THEN /\ body' = [body EXCEPT ![a] = "tool"]
          /\ UNCHANGED result
     ELSE /\ body' = [body EXCEPT ![a] = "returned"]
          /\ result' = Settle(a, SuccessResult(skillUsage[a], text))
  /\ UNCHANGED <<turn, skillUsage>>
  /\ UNCHANGED <<cfg, ioVars, history, faults, pc, events, judgeVars, writes, learn, dbVars>>

\* A model reply of an execution whose model asks for few tools.
ModelReply(a, thought, tool, text) ==
  ModelReplyWithin(a, thought, tool, text, MaxSteps, MaxToolCalls)

\* A tool loop that goes on through turn maxTurns.
LoopContinuesThrough(t) == t <= maxTurns

\* The test of the tool loop, `turn < maxTurns`.
LoopContinues(t) == t < maxTurns

\* A tool call completes: it is recorded with its turn and call index and
\* reported as a reasoning step ("[Skill <name>] <summary>" is never under
\* 20 characters for the skill modelled); then the next tool call of the
\* reply, the next turn, or the end of the loop.
ToolDoneWithin(a, input, success, more, text, stepBound, callBound) ==
  /\ body[a] = "tool"
  /\ Len(reasoning[a]) < stepBound
  /\ more => /\ Len(skillUsage[a]) + 1 < callBound
             /\ Len(reasoning[a]) + 1 < stepBound
  /\ LET record == UsageRecord(input, success, turn[a] + 1, Len(skillUsage[a]) + 1)
         ledger == Append(skillUsage[a], record)
     IN /\ skillUsage' = [skillUsage EXCEPT ![a] = ledger]
        /\ reasoning' = [reasoning EXCEPT ![a] = Append(@, ReasoningStep(a, "skill"))]
        /\ emitted' = [emitted EXCEPT ![a] = Append(@, ReasoningStep(a, "skill"))]
        /\ stepCount' = [stepCount EXCEPT ![a] = stepCountOf(a) + 1]
        /\ IF more
           THEN UNCHANGED <<body, turn, result>>
           ELSE IF LoopContinues(turn[a] + 1)
           THEN /\ turn' = [turn EXCEPT ![a] = @ + 1]
                /\ body' = [body EXCEPT ![a] = "request"]
                /\ UNCHANGED result
           ELSE /\ turn' = [turn EXCEPT ![a] = @ + 1]
                /\ body' = [body EXCEPT ![a] = "returned"]
                /\ result' = Settle(a, SuccessResult(ledger, text))
  /\ UNCHANGED <<cfg, ioVars, history, faults, pc, events, judgeVars, writes, learn, dbVars>>

\* A tool call of an execution whose model asks for few tools.
ToolDone(a, input, success, more, text) ==
  ToolDoneWithin(a, input, success, more, text, MaxSteps, MaxToolCalls)

\* The model request or the tool execution rejects: runAgent's catch.
BodyThrow(a) ==
  /\ body[a] \in {"request", "tool"}
  /\ body' = [body EXCEPT ![a] = "threw"]
  /\ result' = Settle(a, FailedResult(skillUsage[a], "exception"))
  /\ UNCHANGED <<turn, reasoning, skillUsage, emitted, stepCount>>
  /\ UNCHANGED <<cfg, ioVars, history, faults, pc, events, judgeVars, writes, learn, dbVars>>

\* The timer of runAgent fires first: runAgent resolves with a failed
\* result; nothing stops the response promise.
Timeout(a) ==
  /\ body[a] \in {"request", "tool"}
  /\ ~result[a].produced
  /\ Cardinality({b \in Agents : result[b].error = "timeout"}) < MaxTimeouts
  /\ result' = [result EXCEPT ![a] = FailedResult(skillUsage[a], "timeout")]
  /\ UNCHANGED <<body, turn, reasoning, skillUsage, emitted, stepCount>>
  /\ UNCHANGED <<cfg, ioVars, history, faults, pc, events, judgeVars, writes, learn, dbVars>>

\* ------------------------------------------------------------ orchestrator
\* hasExplicitWeights: some weights were supplied and, normalized, they are
\* not the global default.
hasExplicitWeights(weights) ==
  /\ weights.set
  /\ normalizeJudgeWeights(weights.w) # normalizeJudgeWeights(DEFAULT_CRITERIA_WEIGHTS)

\* normalizeJudgeMode: consensus when asked for, the profile's default for
\* a request without a judge mode, single otherwise.
normalizeJudgeMode(value, fallback) ==
  IF value = "unset" THEN fallback
  ELSE IF value = "consensus" THEN "consensus" ELSE "single"

\* resolveDomainPlan: the weights, judge mode, objective mode and skills of
\* the run. A request without a skill list has no skills field.
resolveDomainPlan(c) ==
  [taskCategory |-> c.category,
   judgeMode |-> normalizeJudgeMode(c.judgeMode, ProfileJudgeMode(c.category)),
   objectiveMode |-> ProfileObjectiveMode(c.category),
   activeSkillNames |-> IF "skills" \in DOMAIN c THEN c.skills
                        ELSE ProfileSkills(c.category),
   criteriaWeights |-> IF hasExplicitWeights(c.criteriaWeights)
                       THEN normalizeJudgeWeights(c.criteriaWeights.w)
                       ELSE ProfileWeights(c.category)]

NoVerdict ==
  [threw |-> FALSE, winner |-> 0, scores |-> <<>>, summary |-> "none", mode |-> "none",
   called |-> FALSE, criteriaWeights |-> DEFAULT_CRITERIA_WEIGHTS]

NoGate ==
  [enabled |-> FALSE, passed |-> FALSE, winnerTotal |-> 0, winnerAccuracy |-> 0,
   marginToSecond |-> 0, minTotal |-> 0, minMargin |-> 0, minAccuracy |-> 0,
   reason |-> <<>>]

NoVerdictRow ==
  [present |-> FALSE, winner |-> 0, confidencePassed |-> FALSE,
   confidenceReason |-> <<>>, confidenceLevel |-> "none"]

\* No row: what findFirst yields when no row matches.
NoRow == [agentId |-> 0]

NoLearn == [queue |-> <<>>, found |-> 0, existingLearning |-> NoRow]

WriteIds ==
  {<<"task", 0>>, <<"strategy", 0>>, <<"verdict", 0>>, <<"skills", 0>>,
   <<"observations", 0>>} \cup {<<"result", a>> : a \in Agents}

\* RoundDiv for a numerator of either sign (toFixed rounds the magnitude).
RoundSigned(a, b) == IF a >= 0 THEN RoundDiv(a, b) ELSE 0 - RoundDiv(0 - a, b)

\* computeCategoryBaseline, in hundredths: the mean winning total of the
\* earlier tasks of the category, 20 when there is none.
computeCategoryBaseline(previous) ==
  IF Len(previous) = 0 THEN BaselineNoHistory * 100
  ELSE RoundDiv(SumSeq(previous) * 100, Len(previous))

\* The catch block of orchestrateTask up to its first await: with learning
\* enabled and the results joined, the failure observations are sent;
\* otherwise the status update is next.
Catch(joined) ==
  IF cfg.ENABLE_LEARNING /\ joined
  THEN /\ pc' = "catchObservations"
       /\ observationAttempts' = observationAttempts + 1
  ELSE /\ pc' = "markFailed"
       /\ UNCHANGED observationAttempts

\* A store operation resolves, or rejects while rejections are left.
Fault(ok) ==
  /\ ~ok => faults < MaxFaults
  /\ faults' = IF ok THEN faults ELSE faults + 1

dbRest == <<taskStatus, taskResults, strategyRows, verdictRow, skillUsageRows,
            observations, agentLearning, learningWrites>>

\* orchestrateTask up to the status update: the API key test.
Start ==
  /\ pc = "start"
  /\ IF cfg.apiKey
     THEN /\ pc' = "markRunning"
          /\ events' = events \cup {"orchestration_started"}
          /\ UNCHANGED observationAttempts
     ELSE /\ Catch(FALSE)
          /\ UNCHANGED events
  /\ UNCHANGED <<cfg, ioVars, history, faults, agentVars, judgeVars, writes, learn, dbRest>>

\* task.update({status: 'running'}) resolves or rejects.
MarkRunning(ok) ==
  /\ pc = "markRunning"
  /\ Fault(ok)
  /\ IF ok
     THEN /\ taskStatus' = "running"
          /\ pc' = "launch"
          /\ UNCHANGED observationAttempts
     ELSE /\ Catch(FALSE)
          /\ UNCHANGED taskStatus
  /\ UNCHANGED <<cfg, ioVars, history, events, agentVars, judgeVars, writes, learn>>
  /\ UNCHANGED <<taskResults, strategyRows, verdictRow, skillUsageRows, observations,
                 agentLearning, learningWrites>>

\* agentLearning.findMany resolves or rejects; then runAgent is called for
\* every agent, each up to its first model request.
Launch(ok) ==
  /\ pc = "launch"
  /\ Fault(ok)
  /\ IF ok
     THEN /\ body' = [a \in Agents |-> "request"]
          /\ pc' = "fanout"
          /\ UNCHANGED observationAttempts
     ELSE /\ Catch(FALSE)
          /\ UNCHANGED body
  /\ UNCHANGED <<turn, reasoning, skillUsage, result, emitted, stepCount>>
  /\ UNCHANGED <<cfg, ioVars, history, events, judgeVars, writes, learn, dbRest>>

\* The verdict with the trust signals of the run, and the gate decision.
WithTrust(verdict, gate) ==
  LET winnerScore == ScoreOf(verdict.scores, verdict.winner)
      evidenceCoverage == computeEvidenceCoverage(winnerScore)
      disagreementIndex ==
        IF "disagreementIndex" \in DOMAIN verdict THEN verdict.disagreementIndex ELSE 0
  IN [threw |-> FALSE, winner |-> verdict.winner, scores |-> verdict.scores,
      summary |-> verdict.summary, lowConfidence |-> ~gate.passed,
      mode |-> verdict.mode, called |-> verdict.called,
      criteriaWeights |-> verdict.criteriaWeights,
      confidenceLevel |-> deriveConfidenceLevel(gate, evidenceCoverage, disagreementIndex),
      confidencePassed |-> gate.passed,
      winnerMargin |-> gate.marginToSecond,
      winnerTotal |-> gate.winnerTotal,
      winnerAccuracy |-> gate.winnerAccuracy,
      evidenceCoverage |-> evidenceCoverage,
      disagreementIndex |-> disagreementIndex,
      panelAgreement |-> IF "panelAgreement" \in DOMAIN verdict
                         THEN verdict.panelAgreement ELSE 0 - 1]

Gate(verdict) ==
  evaluateConfidenceGate(verdict.scores, cfg.CONFIDENCE_GATE_ENABLED, cfg.minTotal,
                         cfg.minMargin, cfg.minAccuracy)

\* An orchestrator that gives the run up when the judge fell back.
JudgedAbortingOnFallback(verdict) ==
  IF verdict.threw \/ verdict.summary = "unavailable"
  THEN /\ Catch(TRUE)
       /\ UNCHANGED <<judgeResult, confidenceGate>>
  ELSE /\ confidenceGate' = Gate(verdict)
       /\ judgeResult' = WithTrust(verdict, Gate(verdict))
       /\ pc' = "baseline"
       /\ UNCHANGED observationAttempts

\* From the verdict to the baseline read: a verdict that threw goes to the
\* catch block; otherwise the gate and the trust signals are computed.
Judged(verdict) ==
  IF verdict.threw
  THEN /\ Catch(TRUE)
       /\ UNCHANGED <<judgeResult, confidenceGate>>
  ELSE /\ confidenceGate' = Gate(verdict)
       /\ judgeResult' = WithTrust(verdict, Gate(verdict))
       /\ pc' = "baseline"
       /\ UNCHANGED observationAttempts

\* Promise.all over the runAgent calls resolves: judging_started is
\* emitted and the judge is called, once or once per panel; with fewer than
\* two successful results judgeResponses answers without a model request.
Join ==
  /\ pc = "fanout"
  /\ \A a \in Agents : result[a].produced
  /\ events' = events \cup {"judging_started"}
  /\ LET plan == resolveDomainPlan(cfg)
         successfulResults == SelectSeq(Results, IsSuccessful)
     IN IF Len(successfulResults) > 1
        THEN /\ panel' = [p \in Panels |->
                           IF plan.judgeMode = "consensus" \/ p = 1
                           THEN "pending" ELSE "idle"]
             /\ pc' = "judging"
             /\ UNCHANGED <<judgeRuns, judgeResult, confidenceGate, observationAttempts>>
        ELSE LET verdict == judgeResponses(Results, plan.criteriaWeights,
                                           plan.objectiveMode, NoReply)
             IN /\ Judged(verdict)
                /\ judgeRuns' = [judgeRuns EXCEPT ![1] = verdict]
                /\ panel' = [panel EXCEPT ![1] = "done"]
  /\ UNCHANGED <<cfg, ioVars, history, faults, agentVars, lift, writes, learn, dbRest>>


\* ------------------------------------------------------- judge model replies
GoodEvidence == [m \in Metrics |-> [quote |-> "quoted", reason |-> "because"]]

Hi == [accuracy |-> 800, completeness |-> 700, clarity |-> 900, insight |-> 600,
       metricEvidence |-> GoodEvidence]

Lo == [accuracy |-> 600, completeness |-> 600, clarity |-> 600, insight |-> 600,
       metricEvidence |-> defaultEvidence]

\* What the judge model may answer: nothing usable, a score for every agent
\* favouring the first, or the same high score for every agent.
JudgeReplies ==
  {NoReply,
   [valid |-> TRUE, scores |-> [a \in Agents |-> IF a = 1 THEN Hi ELSE Lo]],
   [valid |-> TRUE, scores |-> [a \in Agents |-> Hi]]}

\* One judgeResponses call resolves. When it is the last one, the verdict
\* of the run is formed (the aggregate in consensus mode) and the gate and
\* the trust signals are computed.
JudgeReply(p, reply) ==
  /\ pc = "judging"
  /\ panel[p] = "pending"
  /\ LET plan == resolveDomainPlan(cfg)
         run == judgeResponses(Results, plan.criteriaWeights, plan.objectiveMode, reply)
         runs == [judgeRuns EXCEPT ![p] = run]
         last == \A q \in Panels \ {p} : panel[q] # "pending"
     IN /\ judgeRuns' = runs
        /\ panel' = [panel EXCEPT ![p] = "done"]
        /\ IF ~last
           THEN UNCHANGED <<pc, judgeResult, confidenceGate, observationAttempts>>
           ELSE IF plan.judgeMode = "consensus"
           THEN Judged(aggregateConsensusJudgeRuns(
                         Array([k \in 1..CONSENSUS_PANEL_COUNT |-> runs[k]]),
                         SelectSeq(Results, IsSuccessful), plan.criteriaWeights))
           ELSE Judged(run)
  /\ UNCHANGED <<cfg, ioVars, history, faults, events, agentVars, lift, writes, learn, dbRest>>

\* computeCategoryBaseline resolves or rejects; on success the rows are
\* built and every step 9 write is sent at once.
Baseline(ok) ==
  /\ pc = "baseline"
  /\ Fault(ok)
  /\ IF ok
     THEN LET baselineScore == computeCategoryBaseline(history)
              winnerTotal == ScoreOf(judgeResult.scores, judgeResult.winner).total
              noSkillRows == \A a \in Agents : Len(skillUsage[a]) = 0
          IN /\ lift' = [baselineScore |-> baselineScore,
                         winnerLift |-> winnerTotal * 100 - baselineScore]
             /\ writes' = [w \in WriteIds |->
                            IF w = <<"skills", 0>> /\ noSkillRows
                            THEN "none" ELSE "pending"]
             /\ pc' = "writes"
             /\ UNCHANGED observationAttempts
     ELSE /\ Catch(TRUE)
          /\ UNCHANGED <<lift, writes>>
  /\ UNCHANGED <<cfg, ioVars, history, events, agentVars, panel, judgeRuns, judgeResult,
                 confidenceGate, learn, dbRest>>

\* selectPatternThoughts: up to three thoughts at or above the floor, else
\* the first two thoughts.
selectPatternThoughts(r, confidenceFloor) ==
  LET best == SelectSeq(r.reasoning, LAMBDA step : step.confidence >= confidenceFloor)
      take(s, n) == Array([i \in 1..Min2(n, Len(s)) |-> s[i].thought])
  IN IF Len(best) > 0 THEN take(best, 3) ELSE take(r.reasoning, 2)

\* The targets of extractAndSaveLearnings: none when the winner has no
\* reasoning, no score of at least the threshold, or no thought to record.
LearningTargets ==
  LET winner == ResultView(judgeResult.winner)
  IN IF ~winner.success \/ Len(winner.reasoning) = 0 THEN <<>>
     ELSE IF ~HasScore(judgeResult.scores, winner.agentId) THEN <<>>
     ELSE IF ScoreOf(judgeResult.scores, winner.agentId).total < LEARNING_SCORE_THRESHOLD
     THEN <<>>
     ELSE IF Len(selectPatternThoughts(winner, 80)) = 0 THEN <<>>
     ELSE SelectSeq([a \in 1..AgentCount |-> a], LAMBDA a : a # winner.agentId)

\* After the learning step: the cache entry, orchestration_complete, return.
Finish ==
  /\ pc' = "returned"
  /\ events' = events \cup {"orchestration_complete"}
  /\ learn' = NoLearn

\* AfterWrites without the test of the gate decision.
AfterWritesUngated ==
  IF cfg.ENABLE_LEARNING /\ LearningTargets # <<>>
  THEN /\ pc' = "learnFind"
       /\ learn' = [queue |-> LearningTargets, found |-> 0, existingLearning |-> NoRow]
       /\ UNCHANGED events
  ELSE Finish

\* After Promise.all(writes): learning when it is enabled and the gate
\* passed, up to its first findFirst; otherwise the end of the run.
AfterWrites ==
  IF cfg.ENABLE_LEARNING /\ confidenceGate.passed /\ LearningTargets # <<>>
  THEN /\ pc' = "learnFind"
       /\ learn' = [queue |-> LearningTargets, found |-> 0, existingLearning |-> NoRow]
       /\ UNCHANGED events
  ELSE Finish

\* What a step 9 write stores when it is applied.
ApplyWrite(w) ==
  /\ taskStatus' = IF w[1] = "task" THEN "completed" ELSE taskStatus
  /\ taskResults' = IF w[1] = "result" THEN taskResults \cup {w[2]} ELSE taskResults
  /\ strategyRows' = IF w[1] = "strategy" THEN strategyRows + 1 ELSE strategyRows
  /\ verdictRow' = IF w[1] = "verdict"
                   THEN [present |-> TRUE, winner |-> judgeResult.winner,
                         confidencePassed |-> judgeResult.confidencePassed,
                         confidenceReason |-> confidenceGate.reason,
                         confidenceLevel |-> judgeResult.confidenceLevel]
                   ELSE verdictRow
  /\ skillUsageRows' = IF w[1] = "skills" THEN skillUsageRows + 1 ELSE skillUsageRows
  /\ observations' = IF w[1] = "observations"
                     THEN [a \in Agents |-> observations[a] + 1]
                     ELSE observations

\* One of the writes resolves or rejects. While orchestrateTask awaits
\* Promise.all, the first rejection takes it to the catch block and the
\* last resolution takes it on; a write that settles later still applies.
WriteLands(w, ok) ==
  /\ writes[w] = "pending"
  /\ Fault(ok)
  /\ writes' = [writes EXCEPT ![w] = IF ok THEN "ok" ELSE "failed"]
  /\ IF ok THEN ApplyWrite(w)
     ELSE UNCHANGED <<taskStatus, taskResults, strategyRows, verdictRow,
                      skillUsageRows, observations>>
  /\ IF pc # "writes"
     THEN UNCHANGED <<pc, events, learn, observationAttempts>>
     ELSE IF ~ok
     THEN /\ Catch(TRUE)
          /\ UNCHANGED <<events, learn>>
     ELSE IF \E v \in WriteIds \ {w} : writes[v] = "pending"
     THEN UNCHANGED <<pc, events, learn, observationAttempts>>
     ELSE /\ AfterWrites
          /\ UNCHANGED observationAttempts
  /\ UNCHANGED <<cfg, ioVars, history, agentVars, judgeVars, agentLearning, learningWrites>>


\* --------------------------------------------------------------- learning
\* learnedPattern: the persona of the winner, the category, the tool path
\* and the selected thoughts.
LearnedPattern ==
  LET winner == ResultView(judgeResult.winner)
  IN [persona |-> winner.agentId, taskCategory |-> cfg.category,
      tools |-> winner.telemetry.toolSequence,
      thoughts |-> selectPatternThoughts(winner, 80)]

\* The row findFirst returns for a target: the first with the target, the
\* source, the category and the source's persona in its pattern; 0 for none.
findFirst(rows, agentId, sourceAgent, taskCategory) ==
  LET found == {i \in 1..Len(rows) :
                  /\ rows[i].agentId = agentId
                  /\ rows[i].sourceAgent = sourceAgent
                  /\ rows[i].taskCategory = taskCategory
                  /\ rows[i].learnedPattern.persona = sourceAgent}
  IN IF found = {} THEN 0 ELSE CHOOSE i \in found : \A j \in found : i <= j

\* quality = total / 40, in millionths.
Quality(total) == total * 25000

\* The row agentLearning.create stores for a winner with the given total
\* and lift.
LearningRow(agentId, sourceAgent, taskCategory, learnedPattern, total, winnerLift) ==
  [agentId |-> agentId, learnedPattern |-> learnedPattern,
   sourceAgent |-> sourceAgent, taskCategory |-> taskCategory,
   appliedCount |-> 1,
   successCount |-> IF winnerLift > 0 THEN 1 ELSE 0,
   successRate |-> Quality(total),
   avgLift |-> winnerLift * 100,
   liftSamples |-> 1]

\* The row agentLearning.update leaves: rate and average lift from the row
\* that was read, the counters incremented in the store.
LearningUpdate(row, existingLearning, learnedPattern, total, winnerLift) ==
  [row EXCEPT
     !.learnedPattern = learnedPattern,
     !.appliedCount = @ + 1,
     !.successCount = @ + (IF winnerLift > 0 THEN 1 ELSE 0),
     !.successRate = RoundDiv(existingLearning.successRate * 8 + Quality(total) * 2, 10),
     !.avgLift = RoundSigned(existingLearning.avgLift * existingLearning.liftSamples
                               + winnerLift * 100,
                             existingLearning.liftSamples + 1),
     !.liftSamples = @ + 1]

\* The row this run creates for a target.
CreatedLearning(agentId) ==
  LearningRow(agentId, judgeResult.winner, cfg.category, LearnedPattern,
              ScoreOf(judgeResult.scores, judgeResult.winner).total, lift.winnerLift)

\* The row this run's update leaves.
UpdatedLearning(row, existingLearning) ==
  LearningUpdate(row, existingLearning, LearnedPattern,
                 ScoreOf(judgeResult.scores, judgeResult.winner).total, lift.winnerLift)

\* agentLearning.findFirst for the next target resolves or rejects; a
\* rejection is logged and ends the learning step.
LearnFind(ok) ==
  /\ pc = "learnFind"
  /\ Fault(ok)
  /\ IF ok
     THEN /\ LET found == findFirst(agentLearning, Head(learn.queue),
                                   judgeResult.winner, cfg.category)
             IN learn' = [learn EXCEPT
                            !.found = found,
                            !.existingLearning =
                               IF found = 0 THEN NoRow ELSE agentLearning[found]]
          /\ pc' = "learnWrite"
          /\ UNCHANGED events
     ELSE Finish
  /\ UNCHANGED <<cfg, ioVars, history, agentVars, judgeVars, writes, dbVars>>

\* agentLearning.update or create for the target resolves or rejects; then
\* the next target, or the end of the run.
LearnWrite(ok) ==
  /\ pc = "learnWrite"
  /\ Fault(ok)
  /\ IF ok
     THEN /\ agentLearning' =
               IF learn.found = 0
               THEN Append(agentLearning, CreatedLearning(Head(learn.queue)))
               ELSE [agentLearning EXCEPT
                       ![learn.found] = UpdatedLearning(@, learn.existingLearning)]
          /\ learningWrites' = learningWrites + 1
          /\ IF Tail(learn.queue) = <<>>
             THEN Finish
             ELSE /\ learn' = [queue |-> Tail(learn.queue), found |-> 0,
                            existingLearning |-> NoRow]
                  /\ pc' = "learnFind"
                  /\ UNCHANGED events
     ELSE /\ Finish
          /\ UNCHANGED <<agentLearning, learningWrites>>
  /\ UNCHANGED <<cfg, ioVars, history, agentVars, judgeVars, writes>>
  /\ UNCHANGED <<taskStatus, taskResults, strategyRows, verdictRow, skillUsageRows,
                 observations, observationAttempts>>

\* ------------------------------------------------------------ catch block
\* learningObservation.createMany of the failure rows resolves or rejects;
\* a rejection is logged.
CatchObservations(ok) ==
  /\ pc = "catchObservations"
  /\ Fault(ok)
  /\ observations' = IF ok THEN [a \in Agents |-> observations[a] + 1] ELSE observations
  /\ pc' = "markFailed"
  /\ UNCHANGED <<cfg, ioVars, history, events, agentVars, judgeVars, writes, learn>>
  /\ UNCHANGED <<taskStatus, taskResults, strategyRows, verdictRow, skillUsageRows,
                 observationAttempts, agentLearning, learningWrites>>

\* task.update({status: 'failed'}) resolves or rejects; orchestrateTask
\* rejects with the original error or with the error of the update.
MarkFailed(ok) ==
  /\ pc = "markFailed"
  /\ Fault(ok)
  /\ taskStatus' = IF ok THEN "failed" ELSE taskStatus
  /\ pc' = "raised"
  /\ UNCHANGED <<cfg, ioVars, history, events, agentVars, judgeVars, writes, learn>>
  /\ UNCHANGED <<taskResults, strategyRows, verdictRow, skillUsageRows, observations,
                 observationAttempts, agentLearning, learningWrites>>

\* ------------------------------------------------------ realtime updates
Sockets == 1..SocketCount
TaskIds == {"A", "B"}

\* The room of a task: `task:${taskId}`.
RoomOf(taskId) == <<"task", taskId>>

\* io.emit: every connected socket, whatever the room.
EverySocket(room) == sockets

\* io.to(room): the connected sockets that have joined the room.
SocketsIn(room) == {s \in sockets : room \in rooms[s]}

\* No client is connected and no task has sent an update.
NoObservers ==
  /\ sockets = {}
  /\ rooms = [s \in Sockets |-> {}]
  /\ received = [s \in Sockets |-> {}]
  /\ updates = [t \in TaskIds |-> 0]

runVars == <<cfg, history, faults, pc, events, agentVars, judgeVars, writes, learn, dbVars>>

\* io.on('connection'): a client connects with a new socket, which is in
\* no task room and has received nothing.
Connect(s) ==
  /\ s \notin sockets
  /\ sockets' = sockets \cup {s}
  /\ rooms' = [rooms EXCEPT ![s] = {}]
  /\ received' = [received EXCEPT ![s] = {}]
  /\ UNCHANGED <<updates, runVars>>

\* socket.on('watch_task'): the socket joins the room of the task it names.
WatchTask(s, taskId) ==
  /\ s \in sockets
  /\ rooms' = [rooms EXCEPT ![s] = @ \cup {RoomOf(taskId)}]
  /\ UNCHANGED <<sockets, received, updates, runVars>>

\* socket.on('disconnect'): the socket is closed and leaves its rooms.
Disconnect(s) ==
  /\ s \in sockets
  /\ sockets' = sockets \ {s}
  /\ rooms' = [rooms EXCEPT ![s] = {}]
  /\ UNCHANGED <<received, updates, runVars>>

\* The onUpdate callback the POST handler gives orchestrateTask: the next
\* update of the task is emitted as task_update to the room of the task.
SendUpdate(taskId) ==
  /\ updates[taskId] < MaxUpdates
  /\ updates' = [updates EXCEPT ![taskId] = @ + 1]
  /\ received' = [s \in Sockets |->
                    IF s \in SocketsIn(RoomOf(taskId))
                    THEN received[s] \cup {<<taskId, updates[taskId] + 1>>}
                    ELSE received[s]]
  /\ UNCHANGED <<sockets, rooms, runVars>>

\* ------------------------------------------------------------ specification
DefaultThresholds(c) ==
  /\ c.minTotal = CONFIDENCE_GATE_MIN_TOTAL
  /\ c.minMargin = CONFIDENCE_GATE_MIN_MARGIN
  /\ c.minAccuracy = CONFIDENCE_GATE_MIN_ACCURACY

NoWeights == [set |-> FALSE, w |-> DEFAULT_CRITERIA_WEIGHTS]

\* The configurations of a run: the environment flags, whether the provider
\* has an API key, and the judge mode and category of the request.
Configs ==
  [ENABLE_LEARNING : BOOLEAN, CONFIDENCE_GATE_ENABLED : BOOLEAN, apiKey : BOOLEAN,
   judgeMode : JudgeModes, category : Categories, criteriaWeights : {NoWeights},
   minTotal : {CONFIDENCE_GATE_MIN_TOTAL}, minMargin : {CONFIDENCE_GATE_MIN_MARGIN},
   minAccuracy : {CONFIDENCE_GATE_MIN_ACCURACY}]

\* A row an earlier task left: agent 2 learned from agent 1.
PriorLearning(category) ==
  [agentId |-> 2,
   learnedPattern |-> [persona |-> 1, taskCategory |-> category, tools |-> <<>>,
                       thoughts |-> <<"th">>],
   sourceAgent |-> 1, taskCategory |-> category, appliedCount |-> 1,
   successCount |-> 1, successRate |-> 750000, avgLift |-> 100000, liftSamples |-> 1]

\* The stores before the run: empty, or with one earlier task of the category.
Priors(category) ==
  {[history |-> <<>>, agentLearning |-> <<>>],
   [history |-> <<32>>, agentLearning |-> <<PriorLearning(category)>>]}

InitRun ==
  /\ pc = "start"
  /\ events = {}
  /\ body = [a \in Agents |-> "idle"]
  /\ turn = [a \in Agents |-> 0]
  /\ reasoning = [a \in Agents |-> <<>>]
  /\ skillUsage = [a \in Agents |-> <<>>]
  /\ result = [a \in Agents |-> NoResult]
  /\ emitted = [a \in Agents |-> <<>>]
  /\ stepCount = [a \in Agents |-> 0]
  /\ panel = [p \in Panels |-> "idle"]
  /\ judgeRuns = [p \in Panels |-> NoVerdict]
  /\ judgeResult = NoVerdict
  /\ confidenceGate = NoGate
  /\ lift = [baselineScore |-> 0, winnerLift |-> 0]
  /\ writes = [w \in WriteIds |-> "none"]
  /\ learn = NoLearn
  /\ taskStatus = "pending"
  /\ taskResults = {}
  /\ strategyRows = 0
  /\ verdictRow = NoVerdictRow
  /\ skillUsageRows = 0
  /\ observations = [a \in Agents |-> 0]
  /\ observationAttempts = 0
  /\ learningWrites = 0
  /\ faults = 0
  /\ NoObservers

Init ==
  /\ cfg \in Configs
  /\ \E prior \in Priors(cfg.category) :
       /\ history = prior.history
       /\ agentLearning = prior.agentLearning
  /\ InitRun

\* The response text of an agent in a whole run: its persona's own.
ResponseOf(a) == IF a = 1 THEN "r1" ELSE "r2"

\* A step of the response promise of some agent.
AgentStep ==
  \E a \in Agents :
    \/ \E thought \in Thoughts \cup {"none"}, tool \in BOOLEAN :
         ModelReply(a, thought, tool, ResponseOf(a))
    \/ \E input \in ToolInputs, success \in BOOLEAN, more \in BOOLEAN :
         ToolDone(a, input, success, more, ResponseOf(a))
    \/ BodyThrow(a)

\* orchestrateTask up to the verdict, with its catch block.
NextFanOut ==
  \/ Start
  \/ \E ok \in BOOLEAN : MarkRunning(ok)
  \/ \E ok \in BOOLEAN : Launch(ok)
  \/ AgentStep
  \/ \E a \in Agents : Timeout(a)
  \/ Join
  \/ \E p \in Panels, reply \in JudgeReplies : JudgeReply(p, reply)
  \/ \E ok \in BOOLEAN : CatchObservations(ok)
  \/ \E ok \in BOOLEAN : MarkFailed(ok)

\* orchestrateTask from the verdict on, with its catch block; the response
\* promise of an agent that timed out goes on meanwhile.
NextPersist ==
  \/ \E ok \in BOOLEAN : Baseline(ok)
  \/ \E w \in WriteIds, ok \in BOOLEAN : WriteLands(w, ok)
  \/ \E ok \in BOOLEAN : LearnFind(ok)
  \/ \E ok \in BOOLEAN : LearnWrite(ok)
  \/ \E ok \in BOOLEAN : CatchObservations(ok)
  \/ \E ok \in BOOLEAN : MarkFailed(ok)
  \/ AgentStep

\* The run up to the verdict: every configuration, every agent behaviour.
SpecFanOut == Init /\ [][NextFanOut]_vars

\* ------------------------------------------------- the run from the verdict
\* How an agent execution may have ended by the join: with a thought and no
\* tool call, with one tool call, by an exception, or by its timeout with
\* the response promise still at its first model request.
OutcomeKinds == {"thought", "tool", "exception", "timeout"}

AgentAfter(kind, text, toolSucceeded) ==
  LET step(thought) == [step |-> 1, thought |-> thought,
                        confidence |-> estimateConfidence(thought, 1)]
      ledger == <<UsageRecord(CHOOSE input \in ToolInputs : TRUE, toolSucceeded, 1, 1)>>
  IN CASE kind = "thought" ->
            [body |-> "returned", turn |-> 0, reasoning |-> <<step("th")>>,
             skillUsage |-> <<>>, result |-> SuccessResult(<<>>, text)]
       [] kind = "tool" ->
            [body |-> "returned", turn |-> 1, reasoning |-> <<step("skill")>>,
             skillUsage |-> ledger, result |-> SuccessResult(ledger, text)]
       [] kind = "exception" ->
            [body |-> "threw", turn |-> 0, reasoning |-> <<>>,
             skillUsage |-> <<>>, result |-> FailedResult(<<>>, "exception")]
       [] kind = "timeout" ->
            [body |-> "request", turn |-> 0, reasoning |-> <<>>,
             skillUsage |-> <<>>, result |-> FailedResult(<<>>, "timeout")]

\* The replies of the three panels of a consensus run.
PanelReplies ==
  {[p \in Panels |-> reply] : reply \in JudgeReplies}
    \cup {[p \in Panels |-> IF p = 1 THEN NoReply ELSE r] : r \in JudgeReplies \ {NoReply}}

\* The stores and the orchestrator's own state once the task is running
\* and before the step 9 writes.
InitRunning ==
  /\ lift = [baselineScore |-> 0, winnerLift |-> 0]
  /\ writes = [w \in WriteIds |-> "none"]
  /\ learn = NoLearn
  /\ taskStatus = "running"
  /\ taskResults = {}
  /\ strategyRows = 0
  /\ verdictRow = NoVerdictRow
  /\ skillUsageRows = 0
  /\ observations = [a \in Agents |-> 0]
  /\ observationAttempts = 0
  /\ learningWrites = 0
  /\ faults = 0
  /\ NoObservers

\* The states in which orchestrateTask has its verdict: the agents have
\* ended, the first one successfully; the judge was called as the mode and
\* the number of successful results require; the gate was evaluated.
InitPersist ==
  /\ cfg \in {c \in Configs : c.apiKey /\ c.category = "general"}
  /\ \E prior \in Priors(cfg.category) :
       /\ history = prior.history
       /\ agentLearning = prior.agentLearning
  /\ \E kinds \in [Agents -> OutcomeKinds] :
       /\ (\E a \in Agents : kinds[a] = "timeout")
            => cfg.judgeMode = "single" /\ history = <<>>
       /\ kinds[1] \in {"thought", "tool"}
       /\ kinds[1] = "tool" => \A a \in Agents \ {1} : kinds[a] = "thought"
       /\ \A a \in Agents \ {1} : kinds[a] # "tool"
       /\ Cardinality({a \in Agents : kinds[a] = "timeout"}) <= MaxTimeouts
       /\ body = [a \in Agents |-> AgentAfter(kinds[a], ResponseOf(a), TRUE).body]
       /\ turn = [a \in Agents |-> AgentAfter(kinds[a], ResponseOf(a), TRUE).turn]
       /\ reasoning = [a \in Agents |-> AgentAfter(kinds[a], ResponseOf(a), TRUE).reasoning]
       /\ skillUsage = [a \in Agents |-> AgentAfter(kinds[a], ResponseOf(a), TRUE).skillUsage]
       /\ result = [a \in Agents |-> AgentAfter(kinds[a], ResponseOf(a), TRUE).result]
  /\ emitted = reasoning
  /\ stepCount = [a \in Agents |-> Len(reasoning[a])]
  /\ \E replies \in PanelReplies :
       LET plan == resolveDomainPlan(cfg)
           successfulResults == SelectSeq(Results, IsSuccessful)
           called == IF Len(successfulResults) > 1 /\ plan.judgeMode = "consensus"
                     THEN Panels ELSE {1}
           runs == Array([p \in Panels |->
                     IF p \in called
                     THEN judgeResponses(Results, plan.criteriaWeights,
                                         plan.objectiveMode, replies[p])
                     ELSE NoVerdict])
           verdict == IF called = Panels
                      THEN aggregateConsensusJudgeRuns(
                             Array([k \in 1..CONSENSUS_PANEL_COUNT |-> runs[k]]),
                             successfulResults, plan.criteriaWeights)
                      ELSE runs[1]
       IN /\ panel = [p \in Panels |-> IF p \in called THEN "done" ELSE "idle"]
          /\ judgeRuns = runs
          /\ confidenceGate = Gate(verdict)
          /\ judgeResult = WithTrust(verdict, Gate(verdict))
  /\ pc = "baseline"
  /\ events = {"orchestration_started", "judging_started"}
  /\ InitRunning

\* The run from the verdict to its end.
SpecPersist == InitPersist /\ [][NextPersist]_vars

\* ------------------------------------------------------------- the judge
\* Weight vectors a request may carry: none, equal weights, accuracy first.
WeightVectors ==
  {NoWeights,
   [set |-> TRUE, w |-> [accuracy |-> 1, completeness |-> 1, clarity |-> 1, insight |-> 1]],
   [set |-> TRUE, w |-> [accuracy |-> 7, completeness |-> 1, clarity |-> 1, insight |-> 1]]}

\* How an agent may stand at the join, as the judge sees it: successful with
\* either response text, with or without a tool call that succeeded or
\* failed, or failed.
JudgeOutcomes ==
  {AgentAfter("thought", text, TRUE) : text \in ResponseTexts}
    \cup {AgentAfter("tool", text, ok) : text \in ResponseTexts, ok \in BOOLEAN}
    \cup {AgentAfter("exception", "", TRUE)}

\* The highest score the schema admits.
Top == [accuracy |-> 1000, completeness |-> 1000, clarity |-> 1000, insight |-> 1000,
        metricEvidence |-> GoodEvidence]

\* What the judge model may answer, with a reply that leaves an agent out
\* and one that gives every agent the highest score.
WideJudgeReplies ==
  JudgeReplies \cup {[valid |-> TRUE, scores |-> [a \in {1} |-> Hi]],
                     [valid |-> TRUE, scores |-> [a \in Agents |-> Top]]}

\* The states in which every runAgent call has resolved and the join is next.
InitJudge ==
  /\ cfg \in [ENABLE_LEARNING : {TRUE}, CONFIDENCE_GATE_ENABLED : {TRUE}, apiKey : {TRUE},
              judgeMode : JudgeModes, category : Categories,
              criteriaWeights : WeightVectors,
              minTotal : {CONFIDENCE_GATE_MIN_TOTAL},
              minMargin : {CONFIDENCE_GATE_MIN_MARGIN},
              minAccuracy : {CONFIDENCE_GATE_MIN_ACCURACY}]
  /\ history = <<>>
  /\ agentLearning = <<>>
  /\ \E outcomes \in [Agents -> JudgeOutcomes] :
       /\ body = [a \in Agents |-> outcomes[a].body]
       /\ turn = [a \in Agents |-> outcomes[a].turn]
       /\ reasoning = [a \in Agents |-> outcomes[a].reasoning]
       /\ skillUsage = [a \in Agents |-> outcomes[a].skillUsage]
       /\ result = [a \in Agents |-> outcomes[a].result]
  /\ emitted = reasoning
  /\ stepCount = [a \in Agents |-> Len(reasoning[a])]
  /\ panel = [p \in Panels |-> "idle"]
  /\ judgeRuns = [p \in Panels |-> NoVerdict]
  /\ judgeResult = NoVerdict
  /\ confidenceGate = NoGate
  /\ pc = "fanout"
  /\ events = {"orchestration_started"}
  /\ InitRunning

NextJudge ==
  \/ Join
  \/ \E p \in Panels, reply \in WideJudgeReplies : JudgeReply(p, reply)

\* The join and the judging, for every joint outcome of the agents.
SpecJudge == InitJudge /\ [][NextJudge]_vars

\* -------------------------------------------------------------- the gate
\* A score with a given total and accuracy.
GateScore(agentId, total, accuracy) ==
  [agentId |-> agentId, accuracy |-> accuracy, completeness |-> 700, clarity |-> 700,
   insight |-> 700, total |-> total, baseTotal |-> total,
   diversityPenaltyApplied |-> FALSE, maxSimilarity |-> 0, reasoning |-> "judge",
   metricEvidence |-> GoodEvidence, objectiveAdjustment |-> FALSE]

GateTotals == {24, 26, 27, 29}
GateAccuracies == {640, 650, 700}

\* Score lists of one agent or of every agent.
GateScoreLists ==
  {<<GateScore(1, t, x)>> : t \in GateTotals, x \in GateAccuracies}
    \cup {[a \in Agents |-> GateScore(a, ts[a], xs[a])] :
            ts \in [Agents -> GateTotals], xs \in [Agents -> GateAccuracies]}

\* The states in which orchestrateTask holds a verdict and evaluates the gate.
InitGate ==
  /\ cfg \in [ENABLE_LEARNING : {TRUE}, CONFIDENCE_GATE_ENABLED : BOOLEAN, apiKey : {TRUE},
              judgeMode : {"single"}, category : {"general"},
              criteriaWeights : {NoWeights},
              minTotal : {CONFIDENCE_GATE_MIN_TOTAL, 29},
              minMargin : {CONFIDENCE_GATE_MIN_MARGIN, 0},
              minAccuracy : {CONFIDENCE_GATE_MIN_ACCURACY}]
  /\ history = <<>>
  /\ agentLearning = <<>>
  /\ body = [a \in Agents |-> "returned"]
  /\ turn = [a \in Agents |-> 0]
  /\ reasoning = [a \in Agents |-> <<>>]
  /\ skillUsage = [a \in Agents |-> <<>>]
  /\ result = [a \in Agents |-> SuccessResult(<<>>, ResponseOf(a))]
  /\ emitted = [a \in Agents |-> <<>>]
  /\ stepCount = [a \in Agents |-> 0]
  /\ panel = [p \in Panels |-> IF p = 1 THEN "done" ELSE "idle"]
  /\ \E scores \in GateScoreLists :
       LET verdict == [threw |-> FALSE, winner |-> resolveWinner(scores),
                       scores |-> scores, summary |-> "judge", mode |-> "single",
                       called |-> TRUE, criteriaWeights |-> DEFAULT_CRITERIA_WEIGHTS]
       IN /\ judgeResult = verdict
          /\ judgeRuns = [p \in Panels |-> IF p = 1 THEN verdict ELSE NoVerdict]
  /\ confidenceGate = NoGate
  /\ pc = "gate"
  /\ events = {"orchestration_started", "judging_started"}
  /\ InitRunning

\* evaluateConfidenceGate on the verdict, and the trust signals.
EvaluateGate ==
  /\ pc = "gate"
  /\ Judged(judgeResult)
  /\ UNCHANGED <<cfg, ioVars, history, faults, events, agentVars, panel, judgeRuns, lift,
                 writes, learn, dbRest>>

\* The gate, for every list of scores.
SpecGate == InitGate /\ [][EvaluateGate]_vars

\* ------------------------------------------------------------ the winner
\* The state around a pure computation on a verdict: every agent has
\* returned its response and nothing is stored yet.
InitSettled ==
  /\ history = <<>>
  /\ agentLearning = <<>>
  /\ body = [a \in Agents |-> "returned"]
  /\ turn = [a \in Agents |-> 0]
  /\ reasoning = [a \in Agents |-> <<>>]
  /\ skillUsage = [a \in Agents |-> <<>>]
  /\ result = [a \in Agents |-> SuccessResult(<<>>, ResponseOf(a))]
  /\ emitted = [a \in Agents |-> <<>>]
  /\ stepCount = [a \in Agents |-> 0]
  /\ events = {"orchestration_started", "judging_started"}
  /\ InitRunning

DefaultConfig ==
  [ENABLE_LEARNING |-> TRUE, CONFIDENCE_GATE_ENABLED |-> TRUE, apiKey |-> TRUE,
   judgeMode |-> "single", category |-> "general", criteriaWeights |-> NoWeights,
   minTotal |-> CONFIDENCE_GATE_MIN_TOTAL, minMargin |-> CONFIDENCE_GATE_MIN_MARGIN,
   minAccuracy |-> CONFIDENCE_GATE_MIN_ACCURACY]

\* The scores of a list resolveWinner is given, one per agent id.
MaxScores == 3
ScoreIds == 1..MaxScores

WinnerScore(agentId, v) ==
  [GateScore(agentId, v[1], v[2]) EXCEPT !.completeness = v[3], !.insight = v[4]]

WinnerScoreValues == {26, 29} \X {650, 700} \X {650, 700} \X {650, 700}

\* The orders in which a list of scores can be given.
ListOrders == {f \in [ScoreIds -> ScoreIds] : \A i, j \in ScoreIds : f[i] = f[j] => i = j}

UnresolvedVerdict(scores) ==
  [threw |-> FALSE, winner |-> 0, scores |-> scores, summary |-> "judge",
   mode |-> "single", called |-> TRUE, criteriaWeights |-> DEFAULT_CRITERIA_WEIGHTS]

\* The same scores listed in two orders, before resolveWinner is called.
InitWinner ==
  /\ cfg = DefaultConfig
  /\ InitSettled
  /\ panel = [p \in Panels |-> "done"]
  /\ \E values \in [ScoreIds -> WinnerScoreValues], order \in ListOrders :
       LET scores == Array([i \in ScoreIds |-> WinnerScore(i, values[i])])
           shuffled == Array([i \in ScoreIds |-> scores[order[i]]])
       IN judgeRuns = [p \in Panels |->
                         IF p = 1 THEN UnresolvedVerdict(scores)
                         ELSE UnresolvedVerdict(shuffled)]
  /\ judgeResult = NoVerdict
  /\ confidenceGate = NoGate
  /\ pc = "resolve"

\* resolveWinner on each of the lists.
ResolveWinners ==
  /\ pc = "resolve"
  /\ judgeRuns' = [p \in Panels |->
                     [judgeRuns[p] EXCEPT !.winner = resolveWinner(judgeRuns[p].scores)]]
  /\ pc' = "resolved"
  /\ UNCHANGED <<cfg, ioVars, history, faults, events, agentVars, panel, judgeResult,
                 confidenceGate, lift, writes, learn, dbVars>>

\* resolveWinner, for every list of scores in two orders.
SpecWinner == InitWinner /\ [][ResolveWinners]_vars

\* ------------------------------------------------------------ the learning
\* Rows of earlier runs: for the key this run writes (target 2, source 1)
\* with a rate, an average lift and a number of lift samples, and for
\* another key.
MaxLiftSamples == 4

KeyRows(category) ==
  {[PriorLearning(category) EXCEPT !.successRate = v[1], !.avgLift = v[2],
                                   !.liftSamples = v[3], !.appliedCount = v[3]] :
     v \in {750000, 500000} \X {100000, 0 - 5000} \X {1, 2}}

OtherKeyRow(category) ==
  [PriorLearning(category) EXCEPT !.agentId = 1, !.sourceAgent = 2,
                                  !.learnedPattern.persona = 2]

LearningStores(category) ==
  {<<>>, <<OtherKeyRow(category)>>}
    \cup {<<row>> : row \in KeyRows(category)}
    \cup {<<OtherKeyRow(category), row>> : row \in KeyRows(category)}

\* Judge replies after which the first agent wins with a margin.
LearnReplies ==
  {[valid |-> TRUE, scores |-> [a \in Agents |-> IF a = 1 THEN Hi ELSE Lo]],
   [valid |-> TRUE, scores |-> [a \in Agents |-> IF a = 1 THEN Top ELSE Lo]]}

\* The states in which every step 9 write has resolved and
\* extractAndSaveLearnings is at its first findFirst.
InitLearn ==
  /\ cfg \in {[DefaultConfig EXCEPT !.category = c] : c \in Categories}
  /\ history \in {<<>>, <<32>>, <<28>>}
  /\ agentLearning \in LearningStores(cfg.category)
  /\ body = [a \in Agents |-> AgentAfter("thought", ResponseOf(a), TRUE).body]
  /\ turn = [a \in Agents |-> AgentAfter("thought", ResponseOf(a), TRUE).turn]
  /\ reasoning = [a \in Agents |-> AgentAfter("thought", ResponseOf(a), TRUE).reasoning]
  /\ skillUsage = [a \in Agents |-> AgentAfter("thought", ResponseOf(a), TRUE).skillUsage]
  /\ result = [a \in Agents |-> AgentAfter("thought", ResponseOf(a), TRUE).result]
  /\ emitted = reasoning
  /\ stepCount = [a \in Agents |-> Len(reasoning[a])]
  /\ panel = [p \in Panels |-> IF p = 1 THEN "done" ELSE "idle"]
  /\ \E reply \in LearnReplies :
       LET plan == resolveDomainPlan(cfg)
           verdict == judgeResponses(Results, plan.criteriaWeights, plan.objectiveMode, reply)
       IN /\ judgeRuns = [p \in Panels |-> IF p = 1 THEN verdict ELSE NoVerdict]
          /\ confidenceGate = Gate(verdict)
          /\ judgeResult = WithTrust(verdict, Gate(verdict))
  /\ confidenceGate.passed
  /\ LearningTargets # <<>>
  /\ lift = [baselineScore |-> computeCategoryBaseline(history),
             winnerLift |-> ScoreOf(judgeResult.scores, judgeResult.winner).total * 100
                              - computeCategoryBaseline(history)]
  /\ writes = [w \in WriteIds |-> IF w = <<"skills", 0>> THEN "none" ELSE "ok"]
  /\ learn = [queue |-> LearningTargets, found |-> 0, existingLearning |-> NoRow]
  /\ taskStatus = "completed"
  /\ taskResults = Agents
  /\ strategyRows = 1
  /\ verdictRow = [present |-> TRUE, winner |-> judgeResult.winner,
                   confidencePassed |-> judgeResult.confidencePassed,
                   confidenceReason |-> confidenceGate.reason,
                   confidenceLevel |-> judgeResult.confidenceLevel]
  /\ skillUsageRows = 0
  /\ observations = [a \in Agents |-> 1]
  /\ observationAttempts = 0
  /\ learningWrites = 0
  /\ faults = 0
  /\ pc = "learnFind"
  /\ events = {"orchestration_started", "judging_started"}
  /\ NoObservers

\* The lifts of the winner in another task of the category, in hundredths.
OtherLifts == {0 - 200, 500}

\* Another orchestrateTask call, started by another request for a task of
\* the same category and won by the same agent with total 30, runs its
\* findFirst and its update or create for the same target while this run is
\* in extractAndSaveLearnings.
OtherRunLearns(winnerLift) ==
  /\ pc \in {"learnFind", "learnWrite"}
  /\ learn.queue # <<>>
  /\ Len(agentLearning) < 3
  /\ \A i \in 1..Len(agentLearning) : agentLearning[i].liftSamples < MaxLiftSamples
  /\ LET found == findFirst(agentLearning, Head(learn.queue), judgeResult.winner,
                            cfg.category)
     IN agentLearning' =
          IF found = 0
          THEN Append(agentLearning,
                      LearningRow(Head(learn.queue), judgeResult.winner, cfg.category,
                                  LearnedPattern, 30, winnerLift))
          ELSE [agentLearning EXCEPT
                  ![found] = LearningUpdate(@, agentLearning[found], LearnedPattern,
                                            30, winnerLift)]
  /\ UNCHANGED <<cfg, ioVars, history, faults, pc, events, agentVars, judgeVars, writes, learn,
                 taskStatus, taskResults, strategyRows, verdictRow, skillUsageRows,
                 observations, observationAttempts, learningWrites>>

NextLearn ==
  \/ \E ok \in BOOLEAN : LearnFind(ok)
  \/ \E ok \in BOOLEAN : LearnWrite(ok)
  \/ \E winnerLift \in OtherLifts : OtherRunLearns(winnerLift)

\* extractAndSaveLearnings of one run, with another run learning for the
\* same key.
SpecLearn == InitLearn /\ [][NextLearn]_vars

\* --------------------------------------------------------------- the plan
\* The weights a request may supply: the global default vector as it is and
\* scaled, equal weights, accuracy first.
SuppliedWeights ==
  {[set |-> TRUE, w |-> w] :
     w \in {[accuracy |-> 3, completeness |-> 3, clarity |-> 2, insight |-> 2],
            [accuracy |-> 30, completeness |-> 30, clarity |-> 20, insight |-> 20],
            [accuracy |-> 1, completeness |-> 1, clarity |-> 1, insight |-> 1],
            [accuracy |-> 7, completeness |-> 1, clarity |-> 1, insight |-> 1]}}

\* The skill lists a request may supply.
SuppliedSkills == {<<>>, <<"calculator">>}

\* What a request may leave out or supply: judge mode, weights, skills.
PlanRequests ==
  LET base == [ENABLE_LEARNING : {TRUE}, CONFIDENCE_GATE_ENABLED : {TRUE}, apiKey : {TRUE},
               judgeMode : JudgeModes \cup {"unset"}, category : Categories,
               criteriaWeights : SuppliedWeights \cup {NoWeights},
               minTotal : {CONFIDENCE_GATE_MIN_TOTAL},
               minMargin : {CONFIDENCE_GATE_MIN_MARGIN},
               minAccuracy : {CONFIDENCE_GATE_MIN_ACCURACY}]
  IN base \cup {[f \in DOMAIN c \cup {"skills"} |-> IF f = "skills" THEN skills ELSE c[f]] :
                  c \in base, skills \in SuppliedSkills}

\* The states in which every agent of a request has returned and the plan
\* decides how the results are judged.
InitPlan ==
  /\ cfg \in PlanRequests
  /\ history = <<>>
  /\ agentLearning = <<>>
  /\ body = [a \in Agents |-> AgentAfter("thought", ResponseOf(a), TRUE).body]
  /\ turn = [a \in Agents |-> AgentAfter("thought", ResponseOf(a), TRUE).turn]
  /\ reasoning = [a \in Agents |-> AgentAfter("thought", ResponseOf(a), TRUE).reasoning]
  /\ skillUsage = [a \in Agents |-> AgentAfter("thought", ResponseOf(a), TRUE).skillUsage]
  /\ result = [a \in Agents |-> AgentAfter("thought", ResponseOf(a), TRUE).result]
  /\ emitted = reasoning
  /\ stepCount = [a \in Agents |-> Len(reasoning[a])]
  /\ panel = [p \in Panels |-> "idle"]
  /\ judgeRuns = [p \in Panels |-> NoVerdict]
  /\ judgeResult = NoVerdict
  /\ confidenceGate = NoGate
  /\ pc = "fanout"
  /\ events = {"orchestration_started"}
  /\ InitRunning

NextPlan ==
  \/ Join
  \/ \E p \in Panels, reply \in JudgeReplies : JudgeReply(p, reply)

\* The judging of a request under its resolved plan.
SpecPlan == InitPlan /\ [][NextPlan]_vars

\* ------------------------------------------------------ the task rooms
\* The server with no client connected and two tasks about to run.
InitRooms ==
  /\ cfg = DefaultConfig
  /\ history = <<>>
  /\ agentLearning = <<>>
  /\ InitRun

NextRooms ==
  \/ \E s \in Sockets : Connect(s)
  \/ \E s \in Sockets, taskId \in TaskIds : WatchTask(s, taskId)
  \/ \E s \in Sockets : Disconnect(s)
  \/ \E taskId \in TaskIds : SendUpdate(taskId)

\* Clients connecting, watching and leaving while two tasks send updates.
SpecRooms == InitRooms /\ [][NextRooms]_vars

\* ------------------------------------------------------ the reasoning steps
\* The thoughts a reply may carry: with or without a keyword, or too short.
ReplyThoughts == {"th", "plain", ShortThought}

\* The fan-out just after every runAgent call sent its first model request.
InitSteps ==
  /\ cfg = DefaultConfig
  /\ history = <<>>
  /\ agentLearning = <<>>
  /\ body = [a \in Agents |-> "request"]
  /\ turn = [a \in Agents |-> 0]
  /\ reasoning = [a \in Agents |-> <<>>]
  /\ skillUsage = [a \in Agents |-> <<>>]
  /\ result = [a \in Agents |-> NoResult]
  /\ emitted = [a \in Agents |-> <<>>]
  /\ stepCount = [a \in Agents |-> 0]
  /\ panel = [p \in Panels |-> "idle"]
  /\ judgeRuns = [p \in Panels |-> NoVerdict]
  /\ judgeResult = NoVerdict
  /\ confidenceGate = NoGate
  /\ pc = "fanout"
  /\ events = {"orchestration_started"}
  /\ InitRunning

NextSteps ==
  \/ \E a \in Agents, thought \in ReplyThoughts : Think(a, thought)
  \/ AgentStep
  \/ \E a \in Agents : Timeout(a)

\* The executions of the agents side by side, several thoughts to a reply.
SpecSteps == InitSteps /\ [][NextSteps]_vars

\* ------------------------------------------------------- the trust level
\* What the evidence of one metric may be: a quote with a rationale, the
\* placeholder quote, a quote whose rationale is blank, or a blank quote.
EvidenceKinds ==
  {[quote |-> "quoted", reason |-> "because"],
   [quote |-> "[no direct quote provided]", reason |-> "because"],
   [quote |-> "quoted", reason |-> ""],
   [quote |-> "", reason |-> "because"]}

\* The disagreement index of a verdict, in ten-thousandths; a single-judge
\* verdict has none.
DisagreementValues == {0, 1200, 1201, 2500}

\* The verdicts whose winner has the given total and evidence, single-judge
\* or aggregated with the given disagreement index.
TrustVerdicts ==
  LET scores(total, evidence) ==
        <<[GateScore(1, total, 700) EXCEPT !.metricEvidence = evidence],
          GateScore(2, 20, 700)>>
      single(total, evidence) ==
        [threw |-> FALSE, winner |-> 1, scores |-> scores(total, evidence),
         summary |-> "judge", mode |-> "single", called |-> TRUE,
         criteriaWeights |-> DEFAULT_CRITERIA_WEIGHTS]
      consensus(total, evidence, d) ==
        [threw |-> FALSE, winner |-> 1, scores |-> scores(total, evidence),
         summary |-> "judge", mode |-> "consensus", called |-> TRUE,
         criteriaWeights |-> DEFAULT_CRITERIA_WEIGHTS,
         disagreementIndex |-> d, panelAgreement |-> 10000]
  IN {single(total, evidence) : total \in {24, 29}, evidence \in [Metrics -> EvidenceKinds]}
       \cup {consensus(total, evidence, d) :
               total \in {24, 29}, evidence \in [Metrics -> EvidenceKinds],
               d \in DisagreementValues}

\* The states in which orchestrateTask holds a verdict and derives its trust.
InitTrust ==
  /\ cfg \in {[DefaultConfig EXCEPT !.CONFIDENCE_GATE_ENABLED = enabled] : enabled \in BOOLEAN}
  /\ InitSettled
  /\ judgeResult \in TrustVerdicts
  /\ panel = [p \in Panels |-> IF judgeResult.mode = "consensus" \/ p = 1 THEN "done" ELSE "idle"]
  /\ judgeRuns = [p \in Panels |-> IF panel[p] = "done"
                                   THEN [judgeResult EXCEPT !.mode = "single"]
                                   ELSE NoVerdict]
  /\ confidenceGate = NoGate
  /\ pc = "gate"

\* The trust level, for every evidence of the winner and disagreement index.
SpecTrust == InitTrust /\ [][EvaluateGate]_vars

\* ------------------------------------------------------------ the panels
\* The levels at which a panel may score an agent on every metric.
PanelLevels == {0, 500, 1000}

\* The verdict of a panel that scored every agent at the given level.
PanelVerdict(levels) ==
  LET scores ==
        Array([a \in Agents |->
          parsedScore(a, [accuracy |-> levels[a], completeness |-> levels[a],
                          clarity |-> levels[a], insight |-> levels[a],
                          metricEvidence |-> GoodEvidence],
                      DEFAULT_CRITERIA_WEIGHTS)])
  IN [threw |-> FALSE, winner |-> resolveWinner(scores), scores |-> scores,
      summary |-> "judge", mode |-> "single", called |-> TRUE,
      criteriaWeights |-> DEFAULT_CRITERIA_WEIGHTS]

\* The states in which every panel of a consensus run has answered.
InitConsensus ==
  /\ cfg = [DefaultConfig EXCEPT !.judgeMode = "consensus"]
  /\ InitSettled
  /\ panel = [p \in Panels |-> "done"]
  /\ judgeRuns \in [Panels -> {PanelVerdict(levels) : levels \in [Agents -> PanelLevels]}]
  /\ judgeResult = NoVerdict
  /\ confidenceGate = NoGate
  /\ pc = "aggregate"

\* aggregateConsensusJudgeRuns on the verdicts of the panels, then the gate
\* and the trust signals.
Aggregate ==
  /\ pc = "aggregate"
  /\ Judged(aggregateConsensusJudgeRuns(
              Array([k \in 1..CONSENSUS_PANEL_COUNT |-> judgeRuns[k]]),
              SelectSeq(Results, IsSuccessful), resolveDomainPlan(cfg).criteriaWeights))
  /\ UNCHANGED <<cfg, ioVars, history, faults, events, agentVars, panel, judgeRuns, lift,
                 writes, learn, dbRest>>

\* The aggregation, for every way the panels may score the agents.
SpecConsensus == InitConsensus /\ [][Aggregate]_vars

\* ------------------------------------------------------------ the weights
\* The criteriaWeights a request may carry: any of the four components left
\* out, and each one present not a finite non-negative number (-1) or 0, 1
\* or 4 (in tenths).
RawWeights == UNION {[present -> {0 - 1, 0, 10, 40}] : present \in SUBSET Metrics}

\* A request with criteriaWeights arrives at the POST handler.
InitWeights ==
  /\ \E raw \in RawWeights :
       cfg = [DefaultConfig EXCEPT !.criteriaWeights = [set |-> TRUE, w |-> raw]]
  /\ InitSettled
  /\ panel = [p \in Panels |-> "idle"]
  /\ judgeRuns = [p \in Panels |-> NoVerdict]
  /\ judgeResult = NoVerdict
  /\ confidenceGate = NoGate
  /\ pc = "post"

\* The POST handler normalizes the weights of the request.
NormalizeRequest ==
  /\ pc = "post"
  /\ cfg' = [cfg EXCEPT !.criteriaWeights.w =
                          normalizeJudgeWeights(safeJudgeWeights(cfg.criteriaWeights.w))]
  /\ pc' = "plan"
  /\ UNCHANGED <<ioVars, history, faults, events, agentVars, judgeVars, writes, learn, dbVars>>

\* resolveDomainPlan normalizes the weights it was handed once more.
NormalizePlan ==
  /\ pc = "plan"
  /\ cfg' = [cfg EXCEPT !.criteriaWeights.w = normalizeJudgeWeights(cfg.criteriaWeights.w)]
  /\ pc' = "planned"
  /\ UNCHANGED <<ioVars, history, faults, events, agentVars, judgeVars, writes, learn, dbVars>>

NextWeights == NormalizeRequest \/ NormalizePlan

\* The weights of a request from the POST handler to the plan.
SpecWeights == InitWeights /\ [][NextWeights]_vars

\* --------------------------------------------------- the learned pattern
\* The thoughts a winner may have pushed: one with a reasoning keyword, one
\* plain, one that asks a question.
PatternThoughts == {"th", "plain", "why"}

\* The reasoning array pushReasoning leaves after the thoughts, in order.
pushedReasoning(thoughts) ==
  Array([i \in 1..Len(thoughts) |->
           [step |-> i, thought |-> thoughts[i],
            confidence |-> estimateConfidence(thoughts[i], i)]])

WinnerThoughts ==
  UNION {[1..n -> PatternThoughts] : n \in 0..MaxPatternSteps}

\* The states in which the last step 9 write, the task update, is still
\* pending, the first agent is the winner with a score above the learning
\* threshold and the gate has passed; the winner's reasoning is any
\* sequence of thoughts.
InitPattern ==
  /\ cfg = DefaultConfig
  /\ history = <<>>
  /\ agentLearning \in {<<>>, <<OtherKeyRow(cfg.category)>>, <<PriorLearning(cfg.category)>>}
  /\ body = [a \in Agents |-> "returned"]
  /\ turn = [a \in Agents |-> 0]
  /\ \E thoughts \in WinnerThoughts :
       reasoning = [a \in Agents |->
                      IF a = 1 THEN pushedReasoning(thoughts) ELSE pushedReasoning(<<"th">>)]
  /\ skillUsage = [a \in Agents |-> <<>>]
  /\ result = [a \in Agents |-> SuccessResult(<<>>, ResponseOf(a))]
  /\ emitted = reasoning
  /\ stepCount = [a \in Agents |-> Len(reasoning[a])]
  /\ panel = [p \in Panels |-> IF p = 1 THEN "done" ELSE "idle"]
  /\ \E reply \in LearnReplies :
       LET plan == resolveDomainPlan(cfg)
           verdict == judgeResponses(Results, plan.criteriaWeights, plan.objectiveMode, reply)
       IN /\ judgeRuns = [p \in Panels |-> IF p = 1 THEN verdict ELSE NoVerdict]
          /\ confidenceGate = Gate(verdict)
          /\ judgeResult = WithTrust(verdict, Gate(verdict))
  /\ confidenceGate.passed
  /\ judgeResult.winner = 1
  /\ lift = [baselineScore |-> computeCategoryBaseline(history),
             winnerLift |-> ScoreOf(judgeResult.scores, judgeResult.winner).total * 100
                              - computeCategoryBaseline(history)]
  /\ writes = [w \in WriteIds |-> IF w = <<"skills", 0>> THEN "none"
                                  ELSE IF w = <<"task", 0>> THEN "pending" ELSE "ok"]
  /\ learn = NoLearn
  /\ taskStatus = "running"
  /\ taskResults = Agents
  /\ strategyRows = 1
  /\ verdictRow = [present |-> TRUE, winner |-> judgeResult.winner,
                   confidencePassed |-> judgeResult.confidencePassed,
                   confidenceReason |-> confidenceGate.reason,
                   confidenceLevel |-> judgeResult.confidenceLevel]
  /\ skillUsageRows = 0
  /\ observations = [a \in Agents |-> 1]
  /\ observationAttempts = 0
  /\ learningWrites = 0
  /\ faults = 0
  /\ pc = "writes"
  /\ events = {"orchestration_started", "judging_started"}
  /\ NoObservers

NextPattern ==
  \/ \E w \in WriteIds, ok \in BOOLEAN : WriteLands(w, ok)
  \/ \E ok \in BOOLEAN : LearnFind(ok)
  \/ \E ok \in BOOLEAN : LearnWrite(ok)
  \/ \E ok \in BOOLEAN : CatchObservations(ok)
  \/ \E ok \in BOOLEAN : MarkFailed(ok)

\* The run from its last step 9 write to its end, for every reasoning of
\* the winner.
SpecPattern == InitPattern /\ [][NextPattern]_vars

\* ------------------------------------------------- the run after a fallback
\* What the judge model answers here: nothing usable, or a score for every
\* agent favouring the first.
FlatReplies ==
  {NoReply, [valid |-> TRUE, scores |-> [a \in Agents |-> IF a = 1 THEN Hi ELSE Lo]]}

\* How the agents stand at the join: each with a thought, with a tool call
\* that succeeded, or failed by an exception.
FlatOutcomes ==
  {AgentAfter("thought", "r1", TRUE), AgentAfter("tool", "r2", TRUE),
   AgentAfter("exception", "", TRUE)}

\* The states in which every runAgent call has resolved and the join is
\* next, with the gate and learning enabled at the default thresholds, in
\* either category and judge mode and for every weight vector; no store
\* operation rejects.
InitFlat ==
  /\ cfg \in [ENABLE_LEARNING : {TRUE}, CONFIDENCE_GATE_ENABLED : {TRUE}, apiKey : {TRUE},
              judgeMode : JudgeModes, category : Categories,
              criteriaWeights : WeightVectors,
              minTotal : {CONFIDENCE_GATE_MIN_TOTAL},
              minMargin : {CONFIDENCE_GATE_MIN_MARGIN},
              minAccuracy : {CONFIDENCE_GATE_MIN_ACCURACY}]
  /\ history = <<>>
  /\ agentLearning = <<>>
  /\ \E outcomes \in [Agents -> FlatOutcomes] :
       /\ body = [a \in Agents |-> outcomes[a].body]
       /\ turn = [a \in Agents |-> outcomes[a].turn]
       /\ reasoning = [a \in Agents |-> outcomes[a].reasoning]
       /\ skillUsage = [a \in Agents |-> outcomes[a].skillUsage]
       /\ result = [a \in Agents |-> outcomes[a].result]
  /\ emitted = reasoning
  /\ stepCount = [a \in Agents |-> Len(reasoning[a])]
  /\ panel = [p \in Panels |-> "idle"]
  /\ judgeRuns = [p \in Panels |-> NoVerdict]
  /\ judgeResult = NoVerdict
  /\ confidenceGate = NoGate
  /\ pc = "fanout"
  /\ events = {"orchestration_started"}
  /\ lift = [baselineScore |-> 0, winnerLift |-> 0]
  /\ writes = [w \in WriteIds |-> "none"]
  /\ learn = NoLearn
  /\ taskStatus = "running"
  /\ taskResults = {}
  /\ strategyRows = 0
  /\ verdictRow = NoVerdictRow
  /\ skillUsageRows = 0
  /\ observations = [a \in Agents |-> 0]
  /\ observationAttempts = 0
  /\ learningWrites = 0
  /\ faults = MaxFaults
  /\ NoObservers

NextFlat ==
  \/ Join
  \/ \E p \in Panels, reply \in FlatReplies : JudgeReply(p, reply)
  \/ \E ok \in BOOLEAN : Baseline(ok)
  \/ \E w \in WriteIds, ok \in BOOLEAN : WriteLands(w, ok)
  \/ \E ok \in BOOLEAN : LearnFind(ok)
  \/ \E ok \in BOOLEAN : LearnWrite(ok)
  \/ \E ok \in BOOLEAN : CatchObservations(ok)
  \/ \E ok \in BOOLEAN : MarkFailed(ok)

\* The run from the join to its end.
SpecFlat == InitFlat /\ [][NextFlat]_vars

\* ------------------------------------------------------- the tool loop
\* The first agent's execution is at its first model request; the second
\* agent's has returned. The model of the first agent may ask for a tool at
\* every turn, and every tool call succeeds.
InitTurns ==
  /\ cfg = DefaultConfig
  /\ history = <<>>
  /\ agentLearning = <<>>
  /\ body = [a \in Agents |-> IF a = 1 THEN "request" ELSE "returned"]
  /\ turn = [a \in Agents |-> 0]
  /\ reasoning = [a \in Agents |-> <<>>]
  /\ skillUsage = [a \in Agents |-> <<>>]
  /\ result = [a \in Agents |->
                 IF a = 1 THEN NoResult ELSE SuccessResult(<<>>, ResponseOf(a))]
  /\ emitted = [a \in Agents |-> <<>>]
  /\ stepCount = [a \in Agents |-> 0]
  /\ panel = [p \in Panels |-> "idle"]
  /\ judgeRuns = [p \in Panels |-> NoVerdict]
  /\ judgeResult = NoVerdict
  /\ confidenceGate = NoGate
  /\ pc = "fanout"
  /\ events = {"orchestration_started"}
  /\ InitRunning

\* A step of the tool loop of some agent.
LoopStep ==
  \E a \in Agents :
    \/ \E tool \in BOOLEAN :
         ModelReplyWithin(a, "none", tool, ResponseOf(a), MaxLoopCalls + 1, MaxLoopCalls)
    \/ \E input \in ToolInputs, more \in BOOLEAN :
         ToolDoneWithin(a, input, TRUE, more, ResponseOf(a),
                        MaxLoopCalls + 1, MaxLoopCalls)
    \/ BodyThrow(a)

NextTurns ==
  \/ LoopStep
  \/ \E a \in Agents : Timeout(a)

\* One execution of runAgent through all of its turns.
SpecTurns == InitTurns /\ [][NextTurns]_vars

\* ------------------------------------------------------ the penalty pairs
\* The lowest marks a judge gives here: half a point on every metric.
Floor == [accuracy |-> 50, completeness |-> 50, clarity |-> 50, insight |-> 50,
          metricEvidence |-> GoodEvidence]

\* What the judge model may answer: nothing usable, the first agent ahead,
\* the first agent at the floor, or every agent at the floor.
PenaltyReplies ==
  {NoReply,
   [valid |-> TRUE, scores |-> [a \in Agents |-> IF a = 1 THEN Hi ELSE Lo]],
   [valid |-> TRUE, scores |-> [a \in Agents |-> IF a = 1 THEN Floor ELSE Hi]],
   [valid |-> TRUE, scores |-> [a \in Agents |-> Floor]]}

\* The states in which every runAgent call has resolved and the join is
\* next: each agent ended with a thought and either response text, or by an
\* exception.
InitPenalty ==
  /\ cfg \in [ENABLE_LEARNING : {TRUE}, CONFIDENCE_GATE_ENABLED : {TRUE}, apiKey : {TRUE},
              judgeMode : JudgeModes, category : Categories,
              criteriaWeights : {NoWeights},
              minTotal : {CONFIDENCE_GATE_MIN_TOTAL},
              minMargin : {CONFIDENCE_GATE_MIN_MARGIN},
              minAccuracy : {CONFIDENCE_GATE_MIN_ACCURACY}]
  /\ history = <<>>
  /\ agentLearning = <<>>
  /\ \E outcomes \in [Agents -> {AgentAfter("thought", text, TRUE) : text \in ResponseTexts}
                                  \cup {AgentAfter("exception", "", TRUE)}] :
       /\ body = [a \in Agents |-> outcomes[a].body]
       /\ turn = [a \in Agents |-> outcomes[a].turn]
       /\ reasoning = [a \in Agents |-> outcomes[a].reasoning]
       /\ skillUsage = [a \in Agents |-> outcomes[a].skillUsage]
       /\ result = [a \in Agents |-> outcomes[a].result]
  /\ emitted = reasoning
  /\ stepCount = [a \in Agents |-> Len(reasoning[a])]
  /\ panel = [p \in Panels |-> "idle"]
  /\ judgeRuns = [p \in Panels |-> NoVerdict]
  /\ judgeResult = NoVerdict
  /\ confidenceGate = NoGate
  /\ pc = "fanout"
  /\ events = {"orchestration_started"}
  /\ InitRunning

NextPenalty ==
  \/ Join
  \/ \E p \in Panels, reply \in PenaltyReplies : JudgeReply(p, reply)

\* The join and the judging of agents whose texts may coincide.
SpecPenalty == InitPenalty /\ [][NextPenalty]_vars

\* Every step of the server: the request's weights, the run of a task, the
\* thoughts and tool loops of its agents and the sockets watching.
Next == NextWeights \/ NextFanOut \/ NextPersist \/ NextSteps \/ NextTurns \/ NextRooms

\* The whole run.
Spec == Init /\ [][Next]_vars

TypeOK ==
  /\ pc \in {"post", "plan", "planned",
             "gate", "start", "markRunning", "launch", "fanout", "judging", "baseline", "writes",
             "learnFind", "learnWrite", "catchObservations", "markFailed",
             "returned", "raised", "resolve", "resolved", "aggregate"}
  /\ taskStatus \in {"pending", "running", "completed", "failed"}


\* ================================================================== claims
Failing == pc \in {"catchObservations", "markFailed", "raised"}

WinnerTotal == ScoreOf(judgeResult.scores, judgeResult.winner).total

\* C1: a learning record is created or updated only when learning is
\* enabled, the gate decision of the run passed and the winner's total is at
\* least 25; a failing run, and every run without a learning write, leaves
\* the learning store as it was before the run.
C1_LearningOnlyWhenTrusted ==
  /\ learningWrites > 0 =>
       /\ cfg.ENABLE_LEARNING
       /\ confidenceGate.passed
       /\ WinnerTotal >= LEARNING_SCORE_THRESHOLD
       /\ ~Failing
  /\ learningWrites = 0 =>
       \E prior \in Priors(cfg.category) : agentLearning = prior.agentLearning

\* C1 happens: a run returned after writing a learning record.
C1_Witness ==
  /\ pc = "returned"
  /\ learningWrites > 0
  /\ cfg.CONFIDENCE_GATE_ENABLED


Running(a) == body[a] \in {"request", "tool"}

Joined == "judging_started" \in events

\* C2: judging_started, every judge invocation and every write of results
\* or of the verdict come only after every agent execution has settled; no
\* judge call is made while an agent execution of the task is still running.
C2_JudgingAfterEveryExecution ==
  (Joined \/ \E p \in Panels : panel[p] # "idle")
    => \A a \in Agents : result[a].produced /\ ~Running(a)

\* C3: whatever subset of the agents throws or times out, the join has one
\* result per requested agent; a failed one has success = false, an error
\* message and an empty response; the others are what their own executions
\* produced, and an execution that returned fails only by its own timeout.
C3_JoinKeepsEveryResult ==
  /\ \A a \in Agents :
       result[a].produced =>
         /\ result[a].success =>
              /\ body[a] = "returned"
              /\ result[a].response = ResponseOf(a)
              /\ result[a].error = ""
              /\ result[a].telemetry = buildTelemetry(skillUsage[a])
         /\ ~result[a].success =>
              /\ result[a].error \in {"exception", "timeout"}
              /\ result[a].response = ""
         /\ body[a] = "returned" /\ ~result[a].success => result[a].error = "timeout"
         /\ result[a].error = "exception" => body[a] = "threw"
  /\ Joined =>
       /\ Len(Results) = AgentCount
       /\ \A a \in Agents : Results[a].agentId = a /\ result[a].produced

\* C3 happens: the join was made with one agent failed by its timeout and
\* another one successful.
C3_Witness ==
  /\ Joined
  /\ \E a \in Agents : result[a].error = "timeout"
  /\ \E a \in Agents : result[a].success

\* C4: a step 9 write that fails is only logged: the run does not raise and
\* does not set the status to failed.
C4_WriteFailureOnlyLogged ==
  (\E w \in WriteIds : writes[w] = "failed") => ~Failing /\ taskStatus # "failed"

Ended == pc \in {"returned", "raised"} /\ \A w \in WriteIds : writes[w] # "pending"

\* C5: when a run has ended (and none of its writes is still under way) the
\* stored status is completed or failed, and a status of completed comes
\* with a stored verdict carrying its gate outcome.
C5_StatusAtEnd ==
  Ended =>
    /\ taskStatus \in {"completed", "failed"}
    /\ taskStatus = "completed" =>
         /\ verdictRow.present
         /\ verdictRow.confidencePassed = confidenceGate.passed
         /\ verdictRow.confidenceReason = confidenceGate.reason

NoSuccess == Joined /\ \A a \in Agents : ~IsSuccessful(ResultView(a))

\* C6: with no successful agent at the join the run raises, stores no
\* verdict, changes no learning record, and sets the status to failed only
\* after the attempt to store the failure observations was made.
C6_FailureObservationsAttempted ==
  NoSuccess =>
    /\ pc # "returned"
    /\ ~verdictRow.present
    /\ learningWrites = 0
    /\ taskStatus = "failed" => observationAttempts > 0

Successes == {a \in Agents : IsSuccessful(ResultView(a))}
ObjectiveMode == resolveDomainPlan(cfg).objectiveMode
FlatOn(score, metrics) == \A m \in metrics : score[m] = FlatMetric

\* C7 (as the specification states it): when exactly one agent succeeds,
\* in every category and for every weight vector, that agent wins and its
\* score has accuracy = completeness = clarity = insight = 5.00.
C7_LoneSuccessAllFlat ==
  (Joined /\ Cardinality(Successes) = 1) =>
    /\ judgeResult.winner \in Successes
    /\ \A i \in 1..Len(judgeResult.scores) : FlatOn(judgeResult.scores[i], Metrics)

\* C7: when exactly one agent succeeds, for every category and every
\* weight vector, that agent is the winner, no judge model request is made,
\* and its only score has clarity = insight = 5.00 and a total computed from
\* the configured weights; accuracy and completeness are 5.00 too, and the
\* total is 20, in every category whose objective mode is none, while in the
\* coding category they are blended with the objective score.
C7_LoneSuccessWinsByDefault ==
  (Joined /\ Cardinality(Successes) = 1) =>
    LET score == judgeResult.scores[1]
        weights == normalizeJudgeWeights(resolveDomainPlan(cfg).criteriaWeights)
    IN /\ pc = "baseline"
       /\ \A p \in Panels : panel[p] # "pending" /\ ~judgeRuns[p].called
       /\ ~judgeResult.called
       /\ judgeResult.summary = "default"
       /\ judgeResult.winner \in Successes
       /\ Len(judgeResult.scores) = 1
       /\ score.agentId = judgeResult.winner
       /\ FlatOn(score, {"clarity", "insight"})
       /\ score.total = weightedTotal(weights, score)
       /\ ~score.diversityPenaltyApplied
       /\ ObjectiveMode = "none" =>
            FlatOn(score, Metrics) /\ score.total = 20 /\ ~score.objectiveAdjustment
       /\ ObjectiveMode = "coding-v1" => score.objectiveAdjustment

C7_Witness ==
  /\ Joined
  /\ Cardinality(Successes) = 1
  /\ pc = "baseline"
  /\ cfg.category = "coding"
  /\ cfg.criteriaWeights.set
  /\ judgeResult.scores[1].accuracy # FlatMetric

IsFallback(score) == score.reasoning \in {"unavailable", "omitted"}

\* C8 (as the specification states it): every agent scored by the fallback
\* has 5.00 on each of the four metrics.
C8_FallbackAllFlat ==
  (Joined /\ Cardinality(Successes) >= 2) =>
    \A p \in Panels : \A i \in 1..Len(judgeRuns[p].scores) :
      IsFallback(judgeRuns[p].scores[i]) => FlatOn(judgeRuns[p].scores[i], Metrics)

\* C8: with at least two successful agents, a judge request that fails or
\* whose answer cannot be validated never aborts the run. The panel's verdict
\* did not throw, scores every successful agent, gives each affected agent the
\* fallback score (fallback rationale, placeholder evidence, clarity =
\* insight = 5.00, and accuracy = completeness = 5.00 with a base total of 20
\* unless the category's objective mode blends them), and names a winner among
\* the successful agents; once every panel has answered the run goes on to the
\* gate, and in consensus mode every metric of the verdict is the median over
\* the three panels, the fallback ones included.
C8_JudgeFailureNeverAborts ==
  (Joined /\ Cardinality(Successes) >= 2) =>
    /\ pc \in {"judging", "baseline"}
    /\ observationAttempts = 0
    /\ \A p \in Panels : panel[p] = "done" =>
         LET run == judgeRuns[p]
         IN /\ ~run.threw
            /\ run.winner \in Successes
            /\ {run.scores[i].agentId : i \in 1..Len(run.scores)} = Successes
            /\ run.summary = "unavailable" =>
                 \A i \in 1..Len(run.scores) : run.scores[i].reasoning = "unavailable"
            /\ \A i \in 1..Len(run.scores) :
                 IsFallback(run.scores[i]) =>
                   /\ FlatOn(run.scores[i], {"clarity", "insight"})
                   /\ run.scores[i].metricEvidence = defaultEvidence
                   /\ ObjectiveMode = "none" =>
                        FlatOn(run.scores[i], Metrics) /\ run.scores[i].baseTotal = 20
    /\ (\A p \in Panels : panel[p] # "pending") =>
         /\ pc = "baseline"
         /\ judgeResult.winner \in Successes
         /\ {judgeResult.scores[i].agentId : i \in 1..Len(judgeResult.scores)} = Successes
         /\ resolveDomainPlan(cfg).judgeMode = "consensus" =>
              /\ judgeResult.mode = "consensus"
              /\ \A a \in Successes : \A m \in Metrics :
                   ScoreOf(judgeResult.scores, a)[m] =
                     median([p \in Panels |-> ScoreOf(judgeRuns[p].scores, a)[m]])

C8_Witness ==
  /\ pc = "baseline"
  /\ Cardinality(Successes) >= 2
  /\ resolveDomainPlan(cfg).judgeMode = "consensus"
  /\ judgeRuns[1].summary = "unavailable"
  /\ judgeRuns[2].summary = "judge"
  /\ judgeRuns[3].summary = "judge"
  /\ \E i \in 1..Len(judgeResult.scores) : judgeResult.scores[i].accuracy # FlatMetric

\* C9: once the result of an agent execution is produced, its reasoning
\* list, its tool-call ledger and its telemetry do not change and no
\* further reasoning_step event is emitted for that agent.
C9_NothingAfterTheResult ==
  [][\A a \in Agents :
       result[a].produced =>
         /\ reasoning'[a] = reasoning[a]
         /\ skillUsage'[a] = skillUsage[a]
         /\ emitted'[a] = emitted[a]
         /\ result'[a] = result[a]]_vars

GateViolations ==
  LET winner == ScoreOf(judgeResult.scores, judgeResult.winner)
      others == {i \in 1..Len(judgeResult.scores) :
                   judgeResult.scores[i].agentId # judgeResult.winner}
      runnerUp == CHOOSE i \in others :
                    \A j \in others : judgeResult.scores[j].total <= judgeResult.scores[i].total
      margin == IF others = {} THEN winner.total
                ELSE winner.total - judgeResult.scores[runnerUp].total
  IN (IF winner.total < cfg.minTotal THEN {"total"} ELSE {})
       \cup (IF margin < cfg.minMargin THEN {"margin"} ELSE {})
       \cup (IF winner.accuracy < cfg.minAccuracy THEN {"accuracy"} ELSE {})

\* C10: the confidence gate passes whenever it is disabled; when enabled it
\* passes if and only if the winner's total is at least minTotal, its margin
\* over the runner-up at least minMargin and its accuracy at least
\* minAccuracy, a value equal to its threshold passing; and when it fails the
\* reason names every violated threshold and no satisfied one.
C10_GateDecidesOnTheWinner ==
  (pc = "baseline" /\ confidenceGate # NoGate) =>
    LET gate == confidenceGate
    IN /\ ~gate.enabled => gate.passed
       /\ gate.enabled => (gate.passed <=> GateViolations = {})
       /\ (gate.enabled /\ ~gate.passed) =>
            {gate.reason[i] : i \in 1..Len(gate.reason)} = GateViolations

\* The verdicts the run holds: those of the panels that answered and, once
\* formed, the verdict of the run.
Verdicts ==
  {judgeRuns[p] : p \in {q \in Panels : panel[q] = "done"}}
    \cup (IF judgeResult = NoVerdict THEN {} ELSE {judgeResult})

\* The greatest similarity of an agent's text to another successful agent's.
MaxSimilarityOf(a) ==
  LET sims == {jaccardSimilarity(SignalTokens(ResultView(a)), SignalTokens(ResultView(b))) :
                 b \in Successes \ {a}}
  IN IF sims = {} THEN 0 ELSE CHOOSE x \in sims : \A y \in sims : y <= x

\* C11: every score of every verdict (single judge, by-default winner,
\* fallback, consensus aggregate) has a total in 0..40; the total is the base
\* total when the agent's greatest similarity to another successful agent is
\* below 0.72 and round(baseTotal * 0.8) when it is 0.72 or more, so the base
\* total exceeds the total only for a penalized score.
C11_TotalsBoundedAndPenalized ==
  \A verdict \in Verdicts : \A i \in 1..Len(verdict.scores) :
    LET score == verdict.scores[i]
    IN /\ score.total \in 0..40
       /\ score.baseTotal \in 0..40
       /\ score.maxSimilarity = MaxSimilarityOf(score.agentId)
       /\ score.maxSimilarity < DIVERSITY_SIMILARITY_THRESHOLD =>
            score.total = score.baseTotal /\ ~score.diversityPenaltyApplied
       /\ score.maxSimilarity >= DIVERSITY_SIMILARITY_THRESHOLD =>
            /\ score.total = RoundDiv(score.baseTotal * DIVERSITY_PENALTY_FACTOR, 10)
            /\ score.diversityPenaltyApplied
       /\ score.baseTotal > score.total => score.diversityPenaltyApplied

C11_Witness ==
  /\ pc = "baseline"
  /\ judgeResult.mode = "consensus"
  /\ \E i \in 1..Len(judgeResult.scores) :
       /\ judgeResult.scores[i].diversityPenaltyApplied
       /\ judgeResult.scores[i].baseTotal > judgeResult.scores[i].total
  /\ \E p \in Panels : \E i \in 1..Len(judgeRuns[p].scores) :
       judgeRuns[p].scores[i].reasoning = "unavailable"

\* The order of the specification: higher total, then higher accuracy, then
\* higher completeness, then higher insight, then smaller agent id.
Outranks(a, b) ==
  LET ka == <<a.total, a.accuracy, a.completeness, a.insight, 0 - a.agentId>>
      kb == <<b.total, b.accuracy, b.completeness, b.insight, 0 - b.agentId>>
  IN \E k \in 1..5 : ka[k] > kb[k] /\ \A j \in 1..(k - 1) : ka[j] = kb[j]

IsMedianOf(v, values) ==
  /\ \E p \in DOMAIN values : values[p] = v
  /\ 2 * Cardinality({p \in DOMAIN values : values[p] <= v}) > Cardinality(DOMAIN values)
  /\ 2 * Cardinality({p \in DOMAIN values : values[p] >= v}) > Cardinality(DOMAIN values)

\* C13: in consensus mode, for every successful agent each of the four
\* metrics of the verdict is the median of that metric over the three panel
\* verdicts, the base total is computed from those medians, and the diversity
\* penalty is applied once, to the aggregate: the total is the base total or
\* round(baseTotal * 0.8), whatever penalty the panels applied to their own
\* totals.
C13_ConsensusIsMedianPenalizedOnce ==
  (pc = "baseline" /\ judgeResult.mode = "consensus") =>
    \A a \in Successes :
      LET score == ScoreOf(judgeResult.scores, a)
          weights == normalizeJudgeWeights(resolveDomainPlan(cfg).criteriaWeights)
      IN /\ \A m \in Metrics :
              IsMedianOf(score[m], [p \in Panels |-> ScoreOf(judgeRuns[p].scores, a)[m]])
         /\ score.baseTotal = weightedTotal(weights, score)
         /\ score.total = IF MaxSimilarityOf(a) >= DIVERSITY_SIMILARITY_THRESHOLD
                          THEN RoundDiv(score.baseTotal * DIVERSITY_PENALTY_FACTOR, 10)
                          ELSE score.baseTotal
         /\ score.diversityPenaltyApplied <=>
              MaxSimilarityOf(a) >= DIVERSITY_SIMILARITY_THRESHOLD

C13_Witness ==
  /\ pc = "baseline"
  /\ judgeResult.mode = "consensus"
  /\ cfg.category = "general"
  /\ \A p \in Panels : ScoreOf(judgeRuns[p].scores, 1).diversityPenaltyApplied
  /\ {ScoreOf(judgeRuns[p].scores, 1).accuracy : p \in Panels} = {500, 800, 1000}
  /\ ScoreOf(judgeResult.scores, 1).accuracy = 800
  /\ ScoreOf(judgeResult.scores, 1).total < ScoreOf(judgeResult.scores, 1).baseTotal

\* The rows of the store with the key (target, source, category).
RowsKeyed(rows, target, source, category) ==
  {i \in 1..Len(rows) : /\ rows[i].agentId = target
                        /\ rows[i].sourceAgent = source
                        /\ rows[i].taskCategory = category}

\* C14: when learning runs with winner W (total T, lift L) in category C,
\* the write for another agent A creates the record keyed (A, W, C) if the
\* store has none, with success rate T/40, average lift L and one lift
\* sample; otherwise it updates that record: success rate 0.8 * old + 0.2 *
\* T/40, application and lift-sample counters one more, average lift
\* (old average * old samples + L) / (old samples + 1), the mean of all the
\* lift samples of the key.
C14_LearningUpsert ==
  [][(pc = "learnWrite" /\ learningWrites' = learningWrites + 1) =>
       LET target == Head(learn.queue)
           keyed == RowsKeyed(agentLearning, target, judgeResult.winner, cfg.category)
           T == ScoreOf(judgeResult.scores, judgeResult.winner).total
           L == lift.winnerLift * 100
       IN IF keyed = {}
          THEN /\ Len(agentLearning') = Len(agentLearning) + 1
               /\ \A i \in 1..Len(agentLearning) : agentLearning'[i] = agentLearning[i]
               /\ LET new == agentLearning'[Len(agentLearning')]
                  IN /\ new.agentId = target
                     /\ new.sourceAgent = judgeResult.winner
                     /\ new.taskCategory = cfg.category
                     /\ new.successRate = T * 25000
                     /\ new.avgLift = L
                     /\ new.liftSamples = 1
                     /\ new.appliedCount = 1
          ELSE /\ Len(agentLearning') = Len(agentLearning)
               /\ \E k \in keyed :
                    /\ \A i \in 1..Len(agentLearning) :
                         i # k => agentLearning'[i] = agentLearning[i]
                    /\ agentLearning'[k].successRate =
                         RoundDiv(agentLearning[k].successRate * 8 + T * 25000 * 2, 10)
                    /\ agentLearning'[k].appliedCount = agentLearning[k].appliedCount + 1
                    /\ agentLearning'[k].liftSamples = agentLearning[k].liftSamples + 1
                    /\ agentLearning'[k].avgLift =
                         RoundSigned(agentLearning[k].avgLift * agentLearning[k].liftSamples + L,
                                     agentLearning[k].liftSamples + 1)]_vars

\* The weights the run judges with: those of every verdict it holds.
WeightsUsed == {verdict.criteriaWeights : verdict \in Verdicts}

\* C15: every override the request supplies (criteria weights, judge mode,
\* skill list) is the value the run uses, whatever the value; the category's
\* defaults are used only for what the request did not supply.
C15_SuppliedOverridesAreUsed ==
  Joined =>
    LET plan == resolveDomainPlan(cfg)
    IN /\ WeightsUsed \subseteq
            {IF cfg.criteriaWeights.set THEN normalizeJudgeWeights(cfg.criteriaWeights.w)
             ELSE ProfileWeights(cfg.category)}
       /\ cfg.judgeMode = "consensus" => \A p \in Panels : panel[p] # "idle"
       /\ cfg.judgeMode # "consensus" => \A p \in Panels \ {1} : panel[p] = "idle"
       /\ plan.activeSkillNames =
            IF "skills" \in DOMAIN cfg THEN cfg.skills ELSE ProfileSkills(cfg.category)

\* The agents a verdict scores.
ScoredAgents(verdict) == {verdict.scores[i].agentId : i \in 1..Len(verdict.scores)}

\* C16: within one run every agent is executed once (its execution is never
\* started again and the result it resolved with is never replaced) and
\* every judge panel is called at most once (a panel that answered, fallback
\* included, is not asked again and its verdict stays); every verdict has
\* exactly one score for each agent whose result has success = true and a
\* non-empty response, no score for any other agent, and a scored winner
\* (with no such agent judgeResponses throws and there is no verdict).
C16_OnceEachAndScoredExactly ==
  [][/\ \A a \in Agents :
          /\ body[a] # "idle" => body'[a] # "idle"
          /\ body[a] \in {"returned", "threw"} => body'[a] = body[a]
          /\ result[a].produced => result'[a] = result[a]
          /\ turn'[a] >= turn[a]
     /\ \A p \in Panels :
          /\ panel[p] = "done" => panel'[p] = "done" /\ judgeRuns'[p] = judgeRuns[p]
          /\ panel[p] = "pending" => panel'[p] \in {"pending", "done"}
          /\ panel[p] = "idle" /\ panel'[p] # "idle" => \A a \in Agents : result[a].produced
     /\ judgeResult # NoVerdict => judgeResult' = judgeResult
     /\ \A verdict \in Verdicts' :
          /\ verdict.threw <=> Successes' = {}
          /\ ScoredAgents(verdict) = Successes'
          /\ Len(verdict.scores) = Cardinality(Successes')
          /\ ~verdict.threw => verdict.winner \in ScoredAgents(verdict)]_vars

C16_Witness ==
  /\ pc = "baseline"
  /\ \E a \in Agents :
       /\ result[a].error = "timeout"
       /\ body[a] = "returned"
       /\ ScoredAgents(judgeResult) = Agents \ {a}
       /\ judgeResult.winner # a

\* C17: an update of task T is delivered only to the sockets watching T and
\* to every one of them: a step that delivers a message to a socket is the
\* sending of that update by a task whose room the socket has joined; every
\* connected socket that joined the room of T before T sends an update
\* receives it; and all a connected socket has received are updates of the
\* tasks it watches, so a socket watching only task A holds no update of a
\* concurrently running task B.
C17_UpdatesReachTheWatchersOnly ==
  [][/\ \A s \in Sockets : \A m \in received'[s] \ received[s] :
          /\ s \in sockets /\ RoomOf(m[1]) \in rooms[s]
          /\ updates[m[1]] + 1 = m[2] /\ updates'[m[1]] = m[2]
     /\ \A t \in TaskIds : updates'[t] # updates[t] =>
          \A s \in sockets : RoomOf(t) \in rooms[s] => <<t, updates'[t]>> \in received'[s]
     /\ \A s \in sockets' : \A m \in received'[s] : RoomOf(m[1]) \in rooms'[s]]_vars

C17_Witness ==
  /\ sockets = Sockets
  /\ rooms[1] = {RoomOf("A")}
  /\ rooms[2] = {RoomOf("A"), RoomOf("B")}
  /\ updates["A"] = MaxUpdates /\ updates["B"] = MaxUpdates
  /\ received[1] = {<<"A", k>> : k \in 2..MaxUpdates}
  /\ \A k \in 1..MaxUpdates : <<"B", k>> \in received[2]
  /\ <<"A", MaxUpdates>> \in received[2]

\* C18: within one agent execution the reasoning steps are numbered 1, 2,
\* 3, ... in the order they are emitted, without gap or repeat, by a counter
\* of that agent alone; so however the steps of the agents interleave, the
\* reasoning_step events of an agent, in order, are the reasoning list of
\* that agent's result.
C18_StepsNumberedPerAgent ==
  \A a \in Agents :
    /\ \A i \in 1..Len(emitted[a]) : emitted[a][i].step = i
    /\ stepCount[a] = Len(emitted[a])
    /\ emitted[a] = ResultView(a).reasoning

C18_Witness ==
  /\ Len(emitted[1]) = MaxThoughts
  /\ Len(emitted[2]) = 2
  /\ emitted[2][2].thought = "plain"
  /\ result[2].error = "timeout"
  /\ result[1].success

\* The metrics of a score that carry a quote other than the placeholder and
\* a rationale.
Supported(score) ==
  {m \in Metrics : /\ score.metricEvidence[m].quote \notin {"", "[no direct quote provided]"}
                   /\ score.metricEvidence[m].reason # ""}

\* C19: the trust level of a verdict is low if and only if the confidence
\* gate failed; it is high if and only if the gate passed, at least 0.75 of
\* the winner's 4 metrics carry a non-placeholder quote and a rationale, and
\* the disagreement index is at most 0.12; in every other case it is medium.
C19_TrustLevel ==
  pc = "baseline" =>
    LET supported == Cardinality(Supported(ScoreOf(judgeResult.scores, judgeResult.winner)))
        strong == supported * 100 >= 75 * 4
        agreed == judgeResult.disagreementIndex * 100 <= 12 * 10000
        level == judgeResult.confidenceLevel
    IN /\ level = "low" <=> ~confidenceGate.passed
       /\ level = "high" <=> confidenceGate.passed /\ strong /\ agreed
       /\ level = "medium" <=> confidenceGate.passed /\ ~(strong /\ agreed)
       /\ judgeResult.evidenceCoverage * 4 = supported * 10000
       /\ judgeResult.confidencePassed = confidenceGate.passed

C19_Witness ==
  /\ pc = "baseline"
  /\ judgeResult.confidenceLevel = "high"
  /\ judgeResult.evidenceCoverage = 7500
  /\ judgeResult.disagreementIndex = 1200

Abs(x) == IF x < 0 THEN 0 - x ELSE x

\* Highest minus lowest total an agent received across the panels.
SpreadOf(a) ==
  LET totals == {ScoreOf(judgeRuns[p].scores, a).total : p \in Panels}
  IN (CHOOSE x \in totals : \A y \in totals : y <= x)
       - (CHOOSE x \in totals : \A y \in totals : x <= y)

\* C20: in consensus mode the disagreement index is the average over the
\* successful agents of (highest minus lowest total the agent received across
\* the panels) / 40, and panel agreement is the number of panels whose own
\* winner is the aggregated winner divided by the number of panels, each to
\* four decimals (2 of 3 panels gives 0.6667, which is 0.667 to three); both
\* lie in [0,1].
C20_DisagreementAndAgreement ==
  (pc = "baseline" /\ judgeResult.mode = "consensus") =>
    LET n == Cardinality(Successes)
        sum == SumSeq([a \in Agents |-> IF a \in Successes THEN SpreadOf(a) ELSE 0])
        votes == Cardinality({p \in Panels : judgeRuns[p].winner = judgeResult.winner})
        D == judgeResult.disagreementIndex
        PA == judgeResult.panelAgreement
    IN /\ 2 * Abs(D * 40 * n - sum * 10000) <= 40 * n
       /\ 2 * Abs(PA * CONSENSUS_PANEL_COUNT - votes * 10000) <= CONSENSUS_PANEL_COUNT
       /\ D \in 0..10000
       /\ PA \in 0..10000
       /\ votes = 2 => PA = 6667 /\ RoundDiv(PA, 10) = 667

C20_Witness ==
  /\ pc = "baseline"
  /\ judgeResult.mode = "consensus"
  /\ judgeResult.panelAgreement = 6667
  /\ judgeResult.disagreementIndex = 10000

\* C21: for every input weight vector normalization returns four
\* non-negative weights that sum to 1; when no component of the input is a
\* positive finite number it returns the default (0.3, 0.3, 0.2, 0.2); and
\* normalizing the output again returns the same vector.
C21_NormalizedAndIdempotent ==
  [][/\ pc = "post" =>
          LET raw == cfg.criteriaWeights.w
              out == cfg'.criteriaWeights.w
          IN /\ \A m \in Metrics : out[m] >= 0
             /\ out.accuracy + out.completeness + out.clarity + out.insight = 1000000
             /\ (\A m \in DOMAIN raw : raw[m] <= 0) => out = DEFAULT_CRITERIA_WEIGHTS
     /\ pc = "plan" => cfg'.criteriaWeights.w = cfg.criteriaWeights.w]_vars

\* The marker buildPattern writes for a successful result without reasoning.
NoReasoningMarker == "no-reasoning-captured"

\* The thoughts of at most three steps in the order of preference: the
\* steps at 0.8 or above; failing those, the steps at 0.7 or above; failing
\* those, the first two steps; the marker when there is no step.
PreferredThoughts(steps) ==
  LET at(floor) == SelectSeq(steps, LAMBDA step : step.confidence >= floor)
      take(s, n) == Array([i \in 1..Min2(n, Len(s)) |-> s[i].thought])
  IN IF Len(at(80)) > 0 THEN take(at(80), 3)
     ELSE IF Len(at(70)) > 0 THEN take(at(70), 3)
     ELSE IF Len(steps) > 0 THEN take(steps, 2)
     ELSE <<NoReasoningMarker>>

\* C22: once a run whose store operations all resolved has returned, every
\* agent other than the winner has a learning row from the winner whose
\* pattern holds at most three of the winner's thoughts: those of the steps
\* with confidence 0.8 or more; if there are none, those with 0.7 or more;
\* if there are none, the first two; and the placeholder marker when the
\* winner has no reasoning step.
C22_PatternPreference ==
  (pc = "returned" /\ faults = 0)
    => \A a \in Agents \ {judgeResult.winner} :
         \E i \in 1..Len(agentLearning) :
           /\ agentLearning[i].agentId = a
           /\ agentLearning[i].sourceAgent = judgeResult.winner
           /\ Len(agentLearning[i].learnedPattern.thoughts) <= 3
           /\ agentLearning[i].learnedPattern.thoughts
                = PreferredThoughts(reasoning[judgeResult.winner])

\* The metrics a judge may have given an agent, and those of the fallback.
FlatMetrics == [m \in Metrics |-> FlatMetric]
JudgedMetrics(score) ==
  IF score.reasoning = "judge"
  THEN UNION {{[m \in Metrics |-> reply.scores[a][m]] : a \in DOMAIN reply.scores} :
                reply \in WideJudgeReplies}
  ELSE {FlatMetrics}

ObjectiveScoreOf(a) ==
  computeCodingObjectiveScore(extractCodingObjectiveSignals(ResultView(a)))

\* C23: in every verdict of a judge panel, the scores carry an objective
\* adjustment exactly when the domain's objective mode is coding-v1. Then
\* accuracy is 0.72 * the judge's accuracy + 0.28 * the objective score,
\* completeness is 0.82 * the judge's completeness + 0.18 * the objective
\* score (each to two decimals), clarity and insight are the judge's, the
\* base total is recomputed from the blended metrics and the diversity
\* penalty is taken from that base total. In every other domain the metrics
\* are the judge's and no adjustment record is attached.
C23_ObjectiveBeforePenalty ==
  \A p \in Panels : (panel[p] = "done" /\ ~judgeRuns[p].threw) =>
    \A i \in 1..Len(judgeRuns[p].scores) :
      LET score == judgeRuns[p].scores[i]
          weights == judgeRuns[p].criteriaWeights
          objectiveScore == ObjectiveScoreOf(score.agentId)
      IN /\ score.objectiveAdjustment <=> ObjectiveMode = "coding-v1"
         /\ score.baseTotal = weightedTotal(weights, score)
         /\ score.total = IF score.diversityPenaltyApplied
                          THEN RoundDiv(score.baseTotal * DIVERSITY_PENALTY_FACTOR, 10)
                          ELSE score.baseTotal
         /\ \E judged \in JudgedMetrics(score) :
              /\ score.clarity = judged.clarity
              /\ score.insight = judged.insight
              /\ IF ObjectiveMode = "coding-v1"
                 THEN /\ score.accuracy =
                           RoundDiv(judged.accuracy * 72 + objectiveScore * 28, 100)
                      /\ score.completeness =
                           RoundDiv(judged.completeness * 82 + objectiveScore * 18, 100)
                 ELSE /\ score.accuracy = judged.accuracy
                      /\ score.completeness = judged.completeness

\* A judged, corrected and penalized score whose correction moved its base
\* total.
C23_Witness ==
  /\ ObjectiveMode = "coding-v1"
  /\ panel[1] = "done"
  /\ ~judgeRuns[1].threw
  /\ \E i \in 1..Len(judgeRuns[1].scores) :
       LET score == judgeRuns[1].scores[i]
       IN /\ score.reasoning = "judge"
          /\ score.objectiveAdjustment
          /\ score.diversityPenaltyApplied
          /\ score.total < score.baseTotal
          /\ \A judged \in JudgedMetrics(score) :
               score.baseTotal # weightedTotal(judgeRuns[1].criteriaWeights, judged)

\* The keys of the learning store never hold two rows.
OneRowPerKey(rows) ==
  \A i, j \in 1..Len(rows) :
    (/\ rows[i].agentId = rows[j].agentId
     /\ rows[i].sourceAgent = rows[j].sourceAgent
     /\ rows[i].taskCategory = rows[j].taskCategory) => i = j

\* The lifts (in hundredths) and totals of the runs that learn.
AppliedLifts == OtherLifts \cup {lift.winnerLift}
AppliedTotals == {30, ScoreOf(judgeResult.scores, judgeResult.winner).total}

\* A row changed by an update that starts from the row as it is stored.
UpdatesStored(old, new) ==
  /\ new.liftSamples = old.liftSamples + 1
  /\ \E L \in AppliedLifts :
       new.avgLift = RoundSigned(old.avgLift * old.liftSamples + L * 100, old.liftSamples + 1)
  /\ \E T \in AppliedTotals :
       new.successRate = RoundDiv(old.successRate * 8 + Quality(T) * 2, 10)

\* C24: whatever the interleaving of the learning writes of concurrent runs,
\* the store never holds two rows for one key (target agent, source agent,
\* category), and every write to an existing row folds its sample into the
\* success rate and the average lift the row holds at that moment, so that
\* no earlier update is lost.
C24_NoDuplicateNoLostUpdate ==
  [][/\ OneRowPerKey(agentLearning')
     /\ \A i \in 1..Len(agentLearning) :
          agentLearning'[i] # agentLearning[i]
            => UpdatesStored(agentLearning[i], agentLearning'[i])]_vars

\* How far along pending -> running -> completed or failed a status is.
StatusRank(status) ==
  CASE status = "pending" -> 0
    [] status = "running" -> 1
    [] OTHER -> 2

\* C25: the stored status of a task only moves forward along pending ->
\* running -> completed or failed. In particular, once completed is stored
\* no later step of the run (a sibling write that fails, the end of the
\* run, the learning update) changes it, to failed or to anything else.
C25_StatusOnlyMovesForward ==
  [][taskStatus' # taskStatus => StatusRank(taskStatus') > StatusRank(taskStatus)]_vars

\* The highest total among the scores of the agents other than the winner.
HighestOtherTotal ==
  LET others == {i \in 1..Len(judgeResult.scores) :
                   judgeResult.scores[i].agentId # judgeResult.winner}
  IN judgeResult.scores[CHOOSE i \in others :
                          \A j \in others : judgeResult.scores[j].total
                                              <= judgeResult.scores[i].total].total

\* C26: the gate decision is about the winner the verdict names: its
\* winnerTotal and winnerAccuracy are that agent's total and accuracy and
\* its margin is that agent's total less the highest total of the other
\* agents (the winner's total when it is alone), ties of totals included.
C26_GateJudgesDeclaredWinner ==
  (pc = "baseline" /\ confidenceGate # NoGate) =>
    LET winner == ScoreOf(judgeResult.scores, judgeResult.winner)
    IN /\ confidenceGate.winnerTotal = winner.total
       /\ confidenceGate.winnerAccuracy = winner.accuracy
       /\ confidenceGate.marginToSecond =
            IF Len(judgeResult.scores) >= 2 THEN winner.total - HighestOtherTotal
            ELSE winner.total

\* C27: whichever way the run ends (it returns, it fails before the
\* verdict, or a write fails after others of the batch were applied), the
\* store holds at most one learning observation row for each agent of the
\* task.
C27_OneObservationPerAgent ==
  \A a \in Agents : observations[a] <= 1

\* The verdict of the run is made of flat fallback scores only: the lone
\* successful agent won by default, or every judge call failed.
FlatVerdict ==
  /\ judgeResult # NoVerdict
  /\ \A p \in Panels : panel[p] # "pending"
  /\ \A p \in Panels :
       panel[p] = "done" => judgeRuns[p].summary \in {"default", "unavailable"}

\* C28: with the gate enabled at the default thresholds (26, 2, 6.5), a
\* verdict made of flat fallback scores only never passes the gate, in every
\* domain and for every weight vector: the accuracy of a fallback score is 5
\* and, blended with any objective score from 0 to 10 in the coding domain,
\* stays below 6.5. The run then never starts a learning update.
C28_FallbackNeverTrusted ==
  (FlatVerdict /\ cfg.CONFIDENCE_GATE_ENABLED /\ DefaultThresholds(cfg)) =>
    /\ ~confidenceGate.passed
    /\ ~judgeResult.confidencePassed
    /\ pc \notin {"learnFind", "learnWrite"}
    /\ learningWrites = 0
    /\ \A i \in 1..Len(judgeResult.scores) :
         /\ judgeResult.scores[i].accuracy < CONFIDENCE_GATE_MIN_ACCURACY
         /\ ObjectiveMode = "none" => judgeResult.scores[i].accuracy = FlatMetric
    /\ pc = "baseline" =>
         \A objectiveScore \in 0..1000 :
           clampMetric(RoundDiv(FlatMetric * 72 + objectiveScore * 28, 100))
             < CONFIDENCE_GATE_MIN_ACCURACY

\* A run of a coding task that has returned after every judge call failed,
\* the objective correction having raised an agent's accuracy above 5.
C28_Witness ==
  /\ FlatVerdict
  /\ pc = "returned"
  /\ ObjectiveMode = "coding-v1"
  /\ Len(judgeResult.scores) = AgentCount
  /\ \E i \in 1..Len(judgeResult.scores) : judgeResult.scores[i].accuracy > FlatMetric
  /\ \A w \in WriteIds : writes[w] # "pending"

\* The model requests an execution has made: one per turn entered.
RequestsMade(a) == IF turn[a] < maxTurns THEN turn[a] + 1 ELSE maxTurns

\* C29: an agent execution makes at most maxTurns (8) model requests. Its
\* tool loop ends at the first reply without a tool call, and otherwise only
\* after turn maxTurns; every recorded tool call has a turn index in
\* 1..maxTurns and a call index one more than the call recorded before it.
C29_AtMostMaxTurnsRequests ==
  [][\A a \in Agents :
       /\ turn'[a] <= maxTurns
       /\ body'[a] \in {"request", "tool"} => turn'[a] < maxTurns
       /\ (body[a] = "request" /\ body'[a] = "returned") =>
            /\ skillUsage'[a] = skillUsage[a]
            /\ turn'[a] = turn[a]
       /\ (body[a] = "tool" /\ body'[a] = "returned") => turn'[a] = maxTurns
       /\ (body[a] = "tool" /\ body'[a] = "request") =>
            turn'[a] = turn[a] + 1 /\ RequestsMade(a)' = RequestsMade(a) + 1
       /\ \A k \in 1..Len(skillUsage'[a]) :
            /\ skillUsage'[a][k].turnIndex \in 1..maxTurns
            /\ skillUsage'[a][k].callIndex = k
            /\ k > 1 => skillUsage'[a][k].turnIndex >= skillUsage'[a][k - 1].turnIndex]_vars

\* The execution that used up its turns: eight requests, a tool call in
\* each, two of them in one turn.
C29_Witness ==
  /\ body[1] = "returned"
  /\ turn[1] = maxTurns
  /\ result[1].success
  /\ Len(skillUsage[1]) = maxTurns + 1
  /\ skillUsage[1][Len(skillUsage[1])].turnIndex = maxTurns

\* The agent with which a scored agent reaches its greatest similarity.
PartnersOf(a) ==
  {b \in Successes \ {a} :
     jaccardSimilarity(SignalTokens(ResultView(a)), SignalTokens(ResultView(b)))
       = MaxSimilarityOf(a)}

Penalized(verdict) ==
  {verdict.scores[i].agentId :
     i \in {j \in 1..Len(verdict.scores) : verdict.scores[j].diversityPenaltyApplied}}

Reduced(verdict) ==
  {verdict.scores[i].agentId :
     i \in {j \in 1..Len(verdict.scores) :
              verdict.scores[j].total < verdict.scores[j].baseTotal}}

\* C30 (as the specification states it): the penalty never falls on exactly
\* one agent of a verdict, and with exactly two successful agents either
\* both totals are reduced or neither is.
C30_BothReducedOrNeither ==
  \A verdict \in Verdicts :
    /\ Cardinality(Penalized(verdict)) # 1
    /\ Cardinality(Successes) = 2 => Cardinality(Reduced(verdict)) # 1

\* C30: the diversity penalty is never applied to exactly one agent of a
\* verdict: when an agent is penalized, so is every agent with which it
\* reaches its greatest similarity. With exactly two successful agents both
\* or neither are penalized, and a penalized total is round(0.8 * base
\* total), which is below the base total exactly when the base total is 3
\* or more.
C30_PenaltyIsMutual ==
  \A verdict \in Verdicts :
    /\ Cardinality(Penalized(verdict)) # 1
    /\ \A a \in Penalized(verdict) : PartnersOf(a) \subseteq Penalized(verdict)
    /\ \A i \in 1..Len(verdict.scores) :
         LET score == verdict.scores[i]
         IN score.diversityPenaltyApplied =>
              /\ score.total = RoundDiv(score.baseTotal * DIVERSITY_PENALTY_FACTOR, 10)
              /\ score.total < score.baseTotal <=> score.baseTotal >= 3
    /\ Reduced(verdict) \subseteq Penalized(verdict)

\* A verdict that penalizes both agents and reduces the total of one only:
\* the other's base total of 2 rounds back to 2.
C30_Witness ==
  /\ pc = "baseline"
  /\ Cardinality(Successes) = 2
  /\ Cardinality(Penalized(judgeResult)) = 2
  /\ Cardinality(Reduced(judgeResult)) = 1
  /\ \E i \in 1..Len(judgeResult.scores) :
       judgeResult.scores[i].baseTotal = 2 /\ judgeResult.scores[i].total = 2

====
